---------------------------- MODULE Spec2Model ----------------------------
(***************************************************************************)
(* NiTTY firmware: the interrupt-fed ring buffer (shared/src/core) and the *)
(* peripheral registry with the command handlers that drive it (app/src).  *)
(*                                                                         *)
(* Nine specifications share the variables:                                *)
(*   SpecRing    - coreRingBufferWrite / coreRingBufferRead called one at  *)
(*                 a time on one ring buffer;                              *)
(*   SpecRingIsr - the foreground read taken statement by statement, with  *)
(*                 the receive interrupt (an atomic write) between any two *)
(*                 statements;                                             *)
(*   Spec        - the command handlers of parser.c acting on the board    *)
(*                 controller of board-control.c;                          *)
(*   SpecDigital - the same handlers on digital lines over two ports, with *)
(*                 a UART line that kills a digital pin;                   *)
(*   SpecRepl    - lines of text given to interpret (interpreter.c): the   *)
(*                 scanner, then the handlers;                             *)
(*   SpecUart    - the uart lines as token vectors, with the receive       *)
(*                 interrupt of uart-control.c and short vectors;          *)
(*   SpecPortPin - parsePortPin applied to the text of a token;            *)
(*   SpecClocks  - the handlers on lines over peripherals that share       *)
(*                 clocks, two of them the same UART;                      *)
(*   SpecTables  - the appends to the token vector and to the peripheral   *)
(*                 and clock tables, past two growths of the capacity.     *)
(***************************************************************************)
EXTENDS Integers, Sequences, FiniteSets, TLC

(***************************************************************************)
(* Bounds of the model.                                                    *)
(***************************************************************************)
\* the ring buffer holds 2^RingBits bytes (RING_BUFFER_SIZE is 2^7)
RingBits == 2
\* bytes received are 0..MaxByte
MaxByte == 1
\* the serial line delivers at most MaxArrivals bytes
MaxArrivals == 6
\* commands that append to the peripheral table are taken while it holds
\* fewer than MaxPeripherals entries
MaxPeripherals == 3

VARIABLES
    rb,          \* ring_buffer_t: buffer, mask, read_index, write_index
    fifo,        \* the bytes accepted by write and not yet returned by read
    rb_last,     \* the last ring buffer call: op, ret, byte and what preceded
    rd,          \* the foreground read in progress: pc and its locals
    arrived,     \* the bytes the serial line has delivered to the interrupt
    bc,          \* BoardController: peripherals, clocks and their capacities
    currently_active_uart,  \* uart-control.c:14, the UART the ISR serves
    line,        \* firmware.c:79, the text of the line given to interpret
    cmd,         \* the token vector of that line
    out          \* what that command did: result, messages, hardware calls
                 \* and the board around each kill it issued

vars == <<rb, fifo, rb_last, rd, arrived, bc, currently_active_uart, line, cmd, out>>
ringVars == <<rb, fifo, rb_last, rd, arrived>>
boardVars == <<bc, currently_active_uart, line, cmd, out>>

(***************************************************************************)
(* uint32_t arithmetic used by the ring buffer.                            *)
(***************************************************************************)
RECURSIVE Pow2(_)
Pow2(n) == IF n = 0 THEN 1 ELSE 2 * Pow2(n - 1)

\* the C operator & on naturals
RECURSIVE BitAnd(_, _)
BitAnd(a, b) ==
    IF a = 0 \/ b = 0 THEN 0
    ELSE (a % 2) * (b % 2) + 2 * BitAnd(a \div 2, b \div 2)

RingSize == Pow2(RingBits)
Bytes == 0 .. MaxByte

(***************************************************************************)
(* ring-buffer.c                                                           *)
(***************************************************************************)
\* coreRingBufferSetup: the caller's array is zero-initialised ({0U})
coreRingBufferSetup(size) ==
    [buffer      |-> [i \in 0 .. size - 1 |-> 0],
     read_index  |-> 0,
     write_index |-> 0,
     mask        |-> size - 1]

\* an emptiness test that takes the full buffer for the empty one
coreRingBufferEmpty_NextSlot(r) ==
    BitAnd(r.write_index + 1, r.mask) = r.read_index

coreRingBufferEmpty(r) == r.read_index = r.write_index

\* a write that stores the byte but overwrites when full
coreRingBufferWrite_NoFullCheck(r, byte) ==
    LET next_write_index == BitAnd(r.write_index + 1, r.mask)
    IN  [rb  |-> [r EXCEPT !.buffer[r.write_index] = byte,
                           !.write_index = next_write_index],
         ret |-> TRUE]

\* a write that stores into the slot after the write index
coreRingBufferWrite_StoreNext(r, byte) ==
    LET next_write_index == BitAnd(r.write_index + 1, r.mask)
    IN  IF next_write_index = r.read_index
        THEN [rb |-> r, ret |-> FALSE]
        ELSE [rb  |-> [r EXCEPT !.buffer[next_write_index] = byte,
                                !.write_index = next_write_index],
              ret |-> TRUE]

\* a write that advances the write index without the mask
coreRingBufferWrite_NoMask(r, byte) ==
    LET next_write_index == r.write_index + 1
    IN  IF next_write_index = r.read_index
        THEN [rb |-> r, ret |-> FALSE]
        ELSE [rb  |-> [r EXCEPT !.buffer[r.write_index] = byte,
                                !.write_index = next_write_index],
              ret |-> TRUE]

coreRingBufferWrite(r, byte) ==
    LET local_write_index == r.write_index
        local_read_index  == r.read_index
        next_write_index  == BitAnd(local_write_index + 1, r.mask)
    IN  IF next_write_index = local_read_index
        THEN [rb |-> r, ret |-> FALSE]
        ELSE [rb  |-> [r EXCEPT !.buffer[local_write_index] = byte,
                                !.write_index = next_write_index],
              ret |-> TRUE]

\* byte is the value left in *byte; a failed read leaves it untouched, the
\* model reports 0 there and no formula reads it
coreRingBufferRead(r) ==
    LET local_read_index  == r.read_index
        local_write_index == r.write_index
    IN  IF local_read_index = local_write_index
        THEN [rb |-> r, ret |-> FALSE, byte |-> 0]
        ELSE [rb   |-> [r EXCEPT !.read_index =
                                    BitAnd(local_read_index + 1, r.mask)],
              ret  |-> TRUE,
              byte |-> r.buffer[local_read_index]]


(***************************************************************************)
(* The ring buffer as its two callers use it: usart2_isr writes, the       *)
(* foreground (coreUartRead, coreUartDataAvailable) reads and tests.       *)
(***************************************************************************)
RdIdle == [pc |-> "idle", local_read_index |-> 0, local_write_index |-> 0,
           byte |-> 0]

NoCall == [op |-> "setup", ret |-> TRUE, byte |-> 0, pre_fifo |-> <<>>,
           pre_rb |-> coreRingBufferSetup(RingSize)]

RingInit ==
    /\ rb = coreRingBufferSetup(RingSize)
    /\ fifo = <<>>
    /\ rb_last = NoCall
    /\ rd = RdIdle
    /\ arrived = 0

\* usart2_isr: one received byte is pushed; a failed write is ignored
usart2_isr(byte) ==
    LET w == coreRingBufferWrite(rb, byte)
    IN  /\ arrived < MaxArrivals
        /\ arrived' = arrived + 1
        /\ rb' = w.rb
        /\ fifo' = IF w.ret THEN Append(fifo, byte) ELSE fifo
        /\ rb_last' = [op |-> "write", ret |-> w.ret, byte |-> byte,
                       pre_fifo |-> fifo, pre_rb |-> rb]

RingWrite(byte) ==
    /\ usart2_isr(byte)
    /\ UNCHANGED <<rd, boardVars>>

\* coreUartRead's call of coreRingBufferRead, taken as one step
RingRead ==
    LET r == coreRingBufferRead(rb)
    IN  /\ rb' = r.rb
        /\ fifo' = IF r.ret THEN Tail(fifo) ELSE fifo
        /\ rb_last' = [op |-> "read", ret |-> r.ret, byte |-> r.byte,
                       pre_fifo |-> fifo, pre_rb |-> rb]
        /\ UNCHANGED <<rd, boardVars, arrived>>

\* coreUartDataAvailable's call of coreRingBufferEmpty
RingEmpty ==
    /\ rb_last' = [op |-> "empty", ret |-> coreRingBufferEmpty(rb),
                   byte |-> 0, pre_fifo |-> fifo, pre_rb |-> rb]
    /\ UNCHANGED <<rb, fifo, rd, boardVars, arrived>>

RingNext ==
    \/ \E byte \in Bytes : RingWrite(byte)
    \/ RingRead
    \/ RingEmpty

(***************************************************************************)
(* coreRingBufferRead statement by statement (ring-buffer.c:69-83); the    *)
(* interrupt runs to completion between any two of them.                   *)
(***************************************************************************)
RdLoadReadIndex ==
    /\ rd.pc = "idle"
    /\ rd' = [rd EXCEPT !.pc = "load_write",
                        !.local_read_index = rb.read_index]
    /\ UNCHANGED <<rb, fifo, rb_last, boardVars, arrived>>

RdLoadWriteIndex ==
    /\ rd.pc = "load_write"
    /\ rd' = [rd EXCEPT !.pc = "check",
                        !.local_write_index = rb.write_index]
    /\ UNCHANGED <<rb, fifo, rb_last, boardVars, arrived>>

RdCheckEmpty ==
    /\ rd.pc = "check"
    /\ rd.local_read_index = rd.local_write_index
    /\ rd' = RdIdle
    /\ rb_last' = [op |-> "read", ret |-> FALSE, byte |-> 0,
                   pre_fifo |-> fifo, pre_rb |-> rb]
    /\ UNCHANGED <<rb, fifo, boardVars, arrived>>

RdCheckData ==
    /\ rd.pc = "check"
    /\ rd.local_read_index # rd.local_write_index
    /\ rd' = [rd EXCEPT !.pc = "copy"]
    /\ UNCHANGED <<rb, fifo, rb_last, boardVars, arrived>>

RdCopy ==
    /\ rd.pc = "copy"
    /\ rd' = [rd EXCEPT !.pc = "store",
                        !.byte = rb.buffer[rd.local_read_index]]
    /\ UNCHANGED <<rb, fifo, rb_last, boardVars, arrived>>

RdStore ==
    /\ rd.pc = "store"
    /\ rb' = [rb EXCEPT !.read_index =
                            BitAnd(rd.local_read_index + 1, rb.mask)]
    /\ fifo' = Tail(fifo)
    /\ rb_last' = [op |-> "read", ret |-> TRUE, byte |-> rd.byte,
                   pre_fifo |-> fifo, pre_rb |-> rb]
    /\ rd' = RdIdle
    /\ UNCHANGED <<boardVars, arrived>>

Isr(byte) ==
    /\ usart2_isr(byte)
    /\ UNCHANGED <<rd, boardVars>>

RingIsrNext ==
    \/ \E byte \in Bytes : Isr(byte)
    \/ RdLoadReadIndex
    \/ RdLoadWriteIndex
    \/ RdCheckEmpty
    \/ RdCheckData
    \/ RdCopy
    \/ RdStore

(***************************************************************************)
(* Hardware identifiers.  Ports are addresses (parser.c:66, 99), pins are  *)
(* one bit each; clocks, UART handles and modes are named as in the code.  *)
(***************************************************************************)
GPIOA == 1073872896
PORT_SIZE == 1024
JUMP_TO_LOWERCASE == 27
GPIOB == GPIOA + PORT_SIZE
GPIOC == GPIOA + 2 * PORT_SIZE
GPIOD == GPIOA + 3 * PORT_SIZE
GPIOE == GPIOA + 4 * PORT_SIZE

\* GPIOn of libopencm3: 1 << n
GPIO(n) == Pow2(n)

CLOCK_OUT_OF_BOUNDS == "RCC_GPIOK"
ADC_OUT_OF_BOUNDS == "ADC_CHANNEL18"
RCC_ADC1 == "RCC_ADC1"

GROW_CAPACITY(cap) == IF cap < 8 THEN 8 ELSE cap * 2

(***************************************************************************)
(* Characters and C strings.  A char* is the sequence of characters from   *)
(* the pointer to the terminating NUL of the line.                         *)
(***************************************************************************)
UpperCase == <<"A", "B", "C", "D", "E", "F", "G", "H", "I", "J", "K", "L", "M",
               "N", "O", "P", "Q", "R", "S", "T", "U", "V", "W", "X", "Y", "Z">>
LowerCase == <<"a", "b", "c", "d", "e", "f", "g", "h", "i", "j", "k", "l", "m",
               "n", "o", "p", "q", "r", "s", "t", "u", "v", "w", "x", "y", "z">>
Digits == <<"0", "1", "2", "3", "4", "5", "6", "7", "8", "9">>

IndexIn(seq, c) == CHOOSE i \in 1 .. Len(seq) : seq[i] = c
Occurs(seq, c) == \E i \in 1 .. Len(seq) : seq[i] = c

\* the character code of c: letters, digits, the space and tab, the double
\* quote, the underscore and the exclamation mark; no line holds any other
Ord(c) ==
    IF Occurs(UpperCase, c) THEN 64 + IndexIn(UpperCase, c)
    ELSE IF Occurs(LowerCase, c) THEN 96 + IndexIn(LowerCase, c)
    ELSE IF Occurs(Digits, c) THEN 47 + IndexIn(Digits, c)
    ELSE IF c = " " THEN 32
    ELSE IF c = "\t" THEN 9
    ELSE IF c = "\"" THEN 34
    ELSE IF c = "_" THEN 95
    ELSE IF c = "!" THEN 33
    ELSE 0

\* *p, the NUL of the line being code 0
CharAt(str, i) == IF i < Len(str) THEN Ord(str[i + 1]) ELSE 0

isDigitCode(c) == c >= 48 /\ c <= 57

\* strtoul(str, NULL, 10): leading spaces skipped, then the longest run of
\* digits; 0 when there is none
RECURSIVE DigitRun(_, _, _)
DigitRun(str, i, acc) ==
    IF isDigitCode(CharAt(str, i))
    THEN DigitRun(str, i + 1, acc * 10 + (CharAt(str, i) - 48))
    ELSE acc

RECURSIVE SkipSpaces(_, _)
SkipSpaces(str, i) == IF CharAt(str, i) = 32 THEN SkipSpaces(str, i + 1) ELSE i

strtoul(str) == DigitRun(str, SkipSpaces(str, 0), 0)

(***************************************************************************)
(* parser.c: port-pin text to address                                      *)
(***************************************************************************)
getClockFromPort(port) ==
    CASE port = GPIOA -> "RCC_GPIOA"
      [] port = GPIOB -> "RCC_GPIOB"
      [] port = GPIOC -> "RCC_GPIOC"
      [] port = GPIOD -> "RCC_GPIOD"
      [] port = GPIOE -> "RCC_GPIOE"
      [] OTHER -> CLOCK_OUT_OF_BOUNDS

\* the port loop of parsePortPin: port_char runs 'A'..'E', jumps by
\* JUMP_TO_LOWERCASE (0x1B) and the loop's increment to 'a', runs 'a'..'e'
RECURSIVE PortLoop(_, _, _)
PortLoop(first, port_char, subtractor) ==
    IF ~(port_char < 101 + 1) THEN [parsed |-> FALSE, port |-> GPIOA]
    ELSE IF first = port_char
         THEN [parsed |-> TRUE,
               port   |-> GPIOA + PORT_SIZE * (port_char - subtractor)]
    ELSE IF port_char = 69
         THEN PortLoop(first, port_char + JUMP_TO_LOWERCASE + 1, 97)
    ELSE PortLoop(first, port_char + 1, subtractor)

\* a parsePortPin that keeps 'A' as the subtractor for the lower-case letters
parsePortPin_UpperSubtractor(token) ==
    LET p       == PortLoop(CharAt(token.start, 0), 65, 65)
        pin_val == strtoul(Tail(token.start))
    IN  [ok   |-> p.parsed /\ pin_val <= 15,
         port |-> IF p.parsed
                  THEN GPIOA + PORT_SIZE * (CharAt(token.start, 0) - 65)
                  ELSE p.port,
         pin  |-> IF pin_val <= 15 THEN Pow2(pin_val) ELSE 0]

parsePortPin(token) ==
    LET p       == PortLoop(CharAt(token.start, 0), 65, 65)
        pin_val == strtoul(Tail(token.start))
    IN  [ok   |-> p.parsed /\ pin_val <= 15,
         port |-> p.port,
         pin  |-> IF pin_val <= 15 THEN Pow2(pin_val) ELSE 0]

(***************************************************************************)
(* parser.h: the compiled-in pin tables                                    *)
(***************************************************************************)
adcPinMappings ==
    << [port |-> GPIOA, pin |-> GPIO(0), adc_channel |-> "ADC_CHANNEL0"],
       [port |-> GPIOA, pin |-> GPIO(1), adc_channel |-> "ADC_CHANNEL1"],
       [port |-> GPIOA, pin |-> GPIO(4), adc_channel |-> "ADC_CHANNEL4"],
       [port |-> GPIOA, pin |-> GPIO(5), adc_channel |-> "ADC_CHANNEL5"],
       [port |-> GPIOA, pin |-> GPIO(6), adc_channel |-> "ADC_CHANNEL6"],
       [port |-> GPIOA, pin |-> GPIO(7), adc_channel |-> "ADC_CHANNEL7"],
       [port |-> GPIOB, pin |-> GPIO(0), adc_channel |-> "ADC_CHANNEL8"],
       [port |-> GPIOB, pin |-> GPIO(1), adc_channel |-> "ADC_CHANNEL9"],
       [port |-> GPIOC, pin |-> GPIO(0), adc_channel |-> "ADC_CHANNEL10"],
       [port |-> GPIOC, pin |-> GPIO(1), adc_channel |-> "ADC_CHANNEL11"],
       [port |-> GPIOC, pin |-> GPIO(2), adc_channel |-> "ADC_CHANNEL12"],
       [port |-> GPIOC, pin |-> GPIO(3), adc_channel |-> "ADC_CHANNEL13"],
       [port |-> GPIOC, pin |-> GPIO(4), adc_channel |-> "ADC_CHANNEL14"],
       [port |-> GPIOC, pin |-> GPIO(5), adc_channel |-> "ADC_CHANNEL15"] >>

UART1_TX_PIN == [isValid |-> TRUE, handle |-> "USART1", isTx |-> TRUE,
                 isRx |-> FALSE, af_mode |-> "GPIO_AF7"]
UART1_RX_PIN == [isValid |-> TRUE, handle |-> "USART1", isTx |-> FALSE,
                 isRx |-> TRUE, af_mode |-> "GPIO_AF7"]
UART6_TX_PIN == [isValid |-> TRUE, handle |-> "USART6", isTx |-> TRUE,
                 isRx |-> FALSE, af_mode |-> "GPIO_AF8"]
UART6_RX_PIN == [isValid |-> TRUE, handle |-> "USART6", isTx |-> FALSE,
                 isRx |-> TRUE, af_mode |-> "GPIO_AF8"]
UART_INVALID_PIN == [isValid |-> FALSE, handle |-> "0", isTx |-> FALSE,
                     isRx |-> FALSE, af_mode |-> "0"]

uartPinMappings ==
    << [port |-> GPIOA, pin |-> GPIO(9),  uartPin |-> UART1_TX_PIN],
       [port |-> GPIOA, pin |-> GPIO(10), uartPin |-> UART1_RX_PIN],
       [port |-> GPIOA, pin |-> GPIO(11), uartPin |-> UART6_TX_PIN],
       [port |-> GPIOA, pin |-> GPIO(12), uartPin |-> UART6_RX_PIN],
       [port |-> GPIOA, pin |-> GPIO(15), uartPin |-> UART1_TX_PIN],
       [port |-> GPIOB, pin |-> GPIO(3),  uartPin |-> UART1_RX_PIN],
       [port |-> GPIOB, pin |-> GPIO(6),  uartPin |-> UART1_TX_PIN],
       [port |-> GPIOB, pin |-> GPIO(7),  uartPin |-> UART1_RX_PIN],
       [port |-> GPIOC, pin |-> GPIO(6),  uartPin |-> UART6_TX_PIN],
       [port |-> GPIOC, pin |-> GPIO(7),  uartPin |-> UART6_RX_PIN] >>

\* the first table row satisfying a test, 0 when there is none
FirstIndex(seq, Test(_)) ==
    IF \E i \in 1 .. Len(seq) : Test(seq[i])
    THEN CHOOSE i \in 1 .. Len(seq) :
            Test(seq[i]) /\ \A j \in 1 .. i - 1 : ~Test(seq[j])
    ELSE 0

getADCChannelFromPortPin(port, pin) ==
    LET At(m) == m.port = port /\ m.pin = pin
        i == FirstIndex(adcPinMappings, At)
    IN  IF i = 0 THEN ADC_OUT_OF_BOUNDS ELSE adcPinMappings[i].adc_channel

\* a lookup that does not tell the RX pins from the TX pins
getUARTInfo_AnyRole(port, pin) ==
    LET At(m) == m.port = port /\ m.pin = pin
        i == FirstIndex(uartPinMappings, At)
    IN  IF i = 0 THEN UART_INVALID_PIN
        ELSE [uartPinMappings[i].uartPin EXCEPT !.isRx = TRUE, !.isTx = TRUE]

getUARTInfo(port, pin) ==
    LET At(m) == m.port = port /\ m.pin = pin
        i == FirstIndex(uartPinMappings, At)
    IN  IF i = 0 THEN UART_INVALID_PIN ELSE uartPinMappings[i].uartPin

getUARTclock(handle) ==
    CASE handle = "USART1" -> "RCC_USART1"
      [] handle = "USART6" -> "RCC_USART6"
      [] OTHER -> CLOCK_OUT_OF_BOUNDS

getUARTNVICEntry(handle) ==
    CASE handle = "USART1" -> "NVIC_USART1_IRQ"
      [] handle = "USART6" -> "NVIC_USART6_IRQ"
      [] OTHER -> "0"

(***************************************************************************)
(* gpio-control.c, adc-control.c, uart-control.c, peripheral-controller.c  *)
(***************************************************************************)
createGPIOPin(port, pin, clock, mode, af_mode, pupd_resistor) ==
    [port |-> port, pin |-> pin, clock |-> clock, mode |-> mode,
     af_mode |-> af_mode, pupd_resistor |-> pupd_resistor]

createADCPin(port, pin, clock, adc_clock, sample_time, mode, adc_port, adc_channel) ==
    [port |-> port, pin |-> pin, clock |-> clock, sample_time |-> sample_time,
     mode |-> mode, adc_port |-> adc_port, adc_channel |-> adc_channel,
     adc_clock |-> adc_clock]

\* the UARTController built by createUARTPeripheral, which also copies it
\* into currently_active_uart (see StoreUART); the record holds its ring
\* buffer by value, set up empty
createUARTPeripheral(uart_handle, uart_clock, baudrate, rx_port, tx_port, rx_pin, tx_pin, rx_clock, tx_clock, rx_af_mode, tx_af_mode, nvic_entry) ==
    [handle     |-> uart_handle,
     uart_clock |-> uart_clock,
     baudrate   |-> baudrate,
     nvic_entry |-> nvic_entry,
     rb |-> coreRingBufferSetup(RingSize),
     RX |-> createGPIOPin(rx_port, rx_pin, rx_clock, "GPIO_MODE_AF",
                          rx_af_mode, "GPIO_PUPD_NONE"),
     TX |-> createGPIOPin(tx_port, tx_pin, tx_clock, "GPIO_MODE_AF",
                          tx_af_mode, "GPIO_PUPD_NONE")]

createStandardGPIO(port, pin, clock, input_output, pupd) ==
    LET mode == IF input_output = "TYPE_GPIO_INPUT"
                THEN "GPIO_MODE_INPUT" ELSE "GPIO_MODE_OUTPUT"
    IN  [type       |-> input_output,
         peripheral |-> [gpio |-> createGPIOPin(port, pin, clock, mode, "0",
                                                pupd)],
         status     |-> FALSE]

createStandardADCPin(port, pin, clock, adc_clock, sample_time, adc_port, adc_channel) ==
    [type       |-> "TYPE_ADC",
     peripheral |-> [adc |-> createADCPin(port, pin, clock, adc_clock,
                                          sample_time, "GPIO_MODE_ANALOG",
                                          adc_port, adc_channel)],
     status     |-> FALSE]

createStandardUARTUSART(uart_handle, uart_clock, baudrate, rx_port, tx_port, rx_pin, tx_pin, rx_clock, tx_clock, rx_af_mode, tx_af_mode, nvic_entry) ==
    [type       |-> "TYPE_UART",
     peripheral |-> [uart |-> createUARTPeripheral(
                        uart_handle, uart_clock, baudrate, rx_port, tx_port,
                        rx_pin, tx_pin, rx_clock, tx_clock, rx_af_mode,
                        tx_af_mode, nvic_entry)],
     status     |-> FALSE]

enableStandardGPIO(periph) == [periph EXCEPT !.status = TRUE]

disableStandardGPIO(periph) == [periph EXCEPT !.status = FALSE]

enableADCPin(periph) == [periph EXCEPT !.status = TRUE]

\* peripheral-controller.c:90 assigns true: the flag is not cleared
disableADCPin(periph) == [periph EXCEPT !.status = TRUE]

enableUART(periph) == [periph EXCEPT !.status = TRUE]

disableUART(periph) == [periph EXCEPT !.status = FALSE]

\* the call through periph->enablePeripheral: each constructor stores the
\* pair of functions of its own type
enablePeripheral(periph) ==
    CASE periph.type = "TYPE_ADC"  -> enableADCPin(periph)
      [] periph.type = "TYPE_UART" -> enableUART(periph)
      [] OTHER                     -> enableStandardGPIO(periph)

disablePeripheral(periph) ==
    CASE periph.type = "TYPE_ADC"  -> disableADCPin(periph)
      [] periph.type = "TYPE_UART" -> disableUART(periph)
      [] OTHER                     -> disableStandardGPIO(periph)

(***************************************************************************)
(* clocks-control.c                                                        *)
(***************************************************************************)
create_clock(clock_rcc) == [clock |-> clock_rcc, clock_enabled |-> FALSE]

enableClock(clock_controller) ==
    IF ~clock_controller.clock_enabled
    THEN [clock_controller EXCEPT !.clock_enabled = TRUE]
    ELSE clock_controller

disableClock(clock_controller) ==
    IF clock_controller.clock_enabled
    THEN [clock_controller EXCEPT !.clock_enabled = FALSE]
    ELSE clock_controller

(***************************************************************************)
(* board-control.c.  A board b is the BoardController: the two tables as   *)
(* sequences (count = Len) and their capacities.  Indices are 1-based.     *)
(***************************************************************************)
initBoard ==
    [peripherals |-> <<>>, clocks |-> <<>>,
     clocks_size |-> 4, peripherals_size |-> 4]

growClocks(b, clock) ==
    [b EXCEPT !.clocks_size = IF Len(b.clocks) = b.clocks_size
                              THEN GROW_CAPACITY(b.clocks_size)
                              ELSE b.clocks_size,
              !.clocks = Append(b.clocks, create_clock(clock))]

\* an append that never grows the capacity
growPeripherals_KeepsSize(b, periph) ==
    [b EXCEPT !.peripherals = Append(b.peripherals, periph)]

growPeripherals(b, periph) ==
    [b EXCEPT !.peripherals_size = IF Len(b.peripherals) = b.peripherals_size
                                   THEN GROW_CAPACITY(b.peripherals_size)
                                   ELSE b.peripherals_size,
              !.peripherals = Append(b.peripherals, periph)]

adcExists(b) ==
    Cardinality({i \in 1 .. Len(b.peripherals) :
                    b.peripherals[i].type = "TYPE_ADC"
                    /\ b.peripherals[i].status})

\* index 0: no enabled UART
uartExists(b) ==
    LET Active(p) == p.type = "TYPE_UART" /\ p.status
    IN  FirstIndex(b.peripherals, Active)

clockExists(b, clock) ==
    LET Is(c) == c.clock = clock
        i == FirstIndex(b.clocks, Is)
    IN  IF i = 0 THEN [exists |-> FALSE, status |-> FALSE, index |-> 0]
        ELSE [exists |-> TRUE, status |-> b.clocks[i].clock_enabled,
              index |-> i]

disableClockWithEnum(b, clock) ==
    LET Is(c) == c.clock = clock
        i == FirstIndex(b.clocks, Is)
    IN  IF i = 0 THEN b
        ELSE [b EXCEPT !.clocks[i] = disableClock(b.clocks[i])]

\* an activation that adds and enables an entry without using the lookup
ensureClock_AlwaysAdds(b, clock_exists, clock) ==
    LET g == growClocks(b, clock)
    IN  [g EXCEPT !.clocks[Len(g.clocks)] = enableClock(@)]

\* the activation branches written out at every creation site
\* (board-control.c:203-212 and its copies), for a lookup made earlier
ensureClock(b, clock_exists, clock) ==
    IF ~clock_exists.exists
    THEN LET g == growClocks(b, clock)
         IN  [g EXCEPT !.clocks[Len(g.clocks)] = enableClock(@)]
    ELSE IF ~clock_exists.status
    THEN [b EXCEPT !.clocks[clock_exists.index] = enableClock(@)]
    ELSE b

\* bc->peripherals[bc->peripherals_count - 1].enablePeripheral(...)
enableLast(b) ==
    [b EXCEPT !.peripherals[Len(b.peripherals)] = enablePeripheral(@)]

createDigitalPin(b, port, pin, clock, input_output, pupd) ==
    LET clock_exists == clockExists(b, clock)
        b1 == ensureClock(b, clock_exists, clock)
        pc == createStandardGPIO(port, pin, clock, input_output, pupd)
    IN  enableLast(growPeripherals(b1, pc))

createAnalogPin(b, port, pin, clock, sample_time, adc_port, adc_channel) ==
    LET clock_exists == clockExists(b, clock)
        b1 == ensureClock(b, clock_exists, clock)
        adc_clock_exists == clockExists(b1, RCC_ADC1)
        b2 == ensureClock(b1, adc_clock_exists, RCC_ADC1)
        pc == createStandardADCPin(port, pin, clock, RCC_ADC1, sample_time,
                                   adc_port, adc_channel)
    IN  enableLast(growPeripherals(b2, pc))

\* the three lookups are made before any clock is added
createUART(b, handle, uart_clock, baudrate, rx_port, tx_port, rx_pin, tx_pin, rx_clock, tx_clock, rx_af_mode, tx_af_mode, nvic_entry) ==
    LET uart_clock_exists == clockExists(b, uart_clock)
        rx_clock_exists   == clockExists(b, rx_clock)
        tx_clock_exists   == clockExists(b, tx_clock)
        b1 == ensureClock(b, uart_clock_exists, uart_clock)
        b2 == ensureClock(b1, rx_clock_exists, rx_clock)
        b3 == ensureClock(b2, tx_clock_exists, tx_clock)
        pc == createStandardUARTUSART(handle, uart_clock, baudrate, rx_port,
                                      tx_port, rx_pin, tx_pin, rx_clock,
                                      tx_clock, rx_af_mode, tx_af_mode,
                                      nvic_entry)
    IN  enableLast(growPeripherals(b3, pc))

IsGpio(p) == p.type = "TYPE_GPIO_INPUT" \/ p.type = "TYPE_GPIO_OUTPUT"

GpioAt(p, port, pin) ==
    IsGpio(p) /\ p.peripheral.gpio.port = port /\ p.peripheral.gpio.pin = pin

AdcAt(p, port, pin) ==
    p.type = "TYPE_ADC" /\ p.peripheral.adc.port = port
                        /\ p.peripheral.adc.pin = pin

UartAt(p, port, pin) ==
    p.type = "TYPE_UART"
    /\ \/ p.peripheral.uart.RX.port = port /\ p.peripheral.uart.RX.pin = pin
       \/ p.peripheral.uart.TX.port = port /\ p.peripheral.uart.TX.pin = pin

pinExists(b, port, pin) ==
    LET Hit(p) == p.status /\ (GpioAt(p, port, pin) \/ AdcAt(p, port, pin)
                                \/ UartAt(p, port, pin))
        i == FirstIndex(b.peripherals, Hit)
    IN  IF i = 0 THEN "TYPE_NONE" ELSE b.peripherals[i].type

\* the first GPIO entry at the location, enabled or not, is the one changed
mutateDigitalPin(b, port, pin, new_type, new_pupd) ==
    LET Hit(p) == GpioAt(p, port, pin)
        i == FirstIndex(b.peripherals, Hit)
    IN  IF i = 0 THEN b
        ELSE IF b.peripherals[i].type = new_type THEN b
        ELSE [b EXCEPT !.peripherals[i] = enablePeripheral(
                    createStandardGPIO(port, pin,
                                       b.peripherals[i].peripheral.gpio.clock,
                                       new_type, new_pupd))]

mutateADCToDigital(b, port, pin, clock, input_output, pupd) ==
    LET Hit(p) == AdcAt(p, port, pin)
        i == FirstIndex(b.peripherals, Hit)
    IN  IF i = 0 THEN b
        ELSE LET b1 == [b EXCEPT !.peripherals[i] = disablePeripheral(@)]
                 b2 == IF adcExists(b1) = 0
                       THEN disableClockWithEnum(
                                b1, b1.peripherals[i].peripheral.adc.adc_clock)
                       ELSE b1
             IN  [b2 EXCEPT !.peripherals[i] = enablePeripheral(
                        createStandardGPIO(port, pin, clock, input_output,
                                           pupd))]

\* the UART test of board-control.c:501-504 compares the ports and only
\* tests the UART's own pins for being non-zero
KillUartHit(p, port, pin) ==
    p.type = "TYPE_UART"
    /\ \/ p.peripheral.uart.RX.port = port /\ p.peripheral.uart.RX.pin # 0
       \/ p.peripheral.uart.TX.port = port /\ p.peripheral.uart.TX.pin # 0

killPeripheralOrPin(b, port, pin) ==
    LET Hit(p) == p.status /\ (AdcAt(p, port, pin) \/ GpioAt(p, port, pin)
                                \/ KillUartHit(p, port, pin))
        i == FirstIndex(b.peripherals, Hit)
    IN  IF i = 0 THEN b
        ELSE LET b1 == [b EXCEPT !.peripherals[i] = disablePeripheral(@)]
                 p  == b1.peripherals[i]
             IN  CASE p.type = "TYPE_ADC" ->
                        IF adcExists(b1) = 0
                        THEN disableClockWithEnum(b1,
                                                  p.peripheral.adc.adc_clock)
                        ELSE b1
                   [] p.type = "TYPE_UART" ->
                        disableClockWithEnum(b1, p.peripheral.uart.uart_clock)
                   [] OTHER -> b1

\* a conversion that kills the digital pin and appends a fresh analog one
mutateDigitalToADC_Appends(b, port, pin, clock, sample_time, adc_port, adc_channel) ==
    createAnalogPin(killPeripheralOrPin(b, port, pin), port, pin, clock,
                    sample_time, adc_port, adc_channel)

mutateDigitalToADC(b, port, pin, clock, sample_time, adc_port, adc_channel) ==
    LET Hit(p) == GpioAt(p, port, pin)
        i == FirstIndex(b.peripherals, Hit)
    IN  IF i = 0 THEN b
        ELSE LET b1 == [b EXCEPT !.peripherals[i] = disablePeripheral(@)]
                 adc_clock_exists == clockExists(b1, RCC_ADC1)
                 b2 == ensureClock(b1, adc_clock_exists, RCC_ADC1)
             IN  [b2 EXCEPT !.peripherals[i] = enablePeripheral(
                        createStandardADCPin(port, pin, clock, RCC_ADC1,
                                             sample_time, adc_port,
                                             adc_channel))]

(***************************************************************************)
(* parser.c: the command handlers.  A handler runs on a world w: the board,*)
(* currently_active_uart, and what the command has printed, driven on the  *)
(* hardware and killed so far.  It returns the world and its bool result.  *)
(***************************************************************************)
World(b, active) ==
    [bc |-> b, currently_active_uart |-> active,
     printed |-> <<>>, hw |-> <<>>, kills |-> <<>>, acted |-> <<>>]

Printf(w, kind, text) ==
    [w EXCEPT !.printed = Append(@, [kind |-> kind, text |-> text])]

Fail(w, text) == [w |-> Printf(w, "error", text), ret |-> FALSE]

Done(w, text) == [w |-> Printf(w, "info", text), ret |-> TRUE]

\* the handler stuck in getTokenVector's endless loop: it returns nothing,
\* and the process prints the message for ever
Spin(w) == [w |-> Printf(w, "fatal", "Element out of range"), ret |-> FALSE]

\* killPeripheralOrPin as a handler calls it; the call is logged with the
\* board before and after it
Kill(w, port, pin) ==
    LET after == killPeripheralOrPin(w.bc, port, pin)
    IN  [w EXCEPT !.bc = after,
                  !.kills = Append(@, [port |-> port, pin |-> pin,
                                       before |-> w.bc, after |-> after])]

\* createUART, whose createUARTPeripheral also assigns currently_active_uart
StoreUART(w, handle, uart_clock, baudrate, rx_port, tx_port, rx_pin, tx_pin, rx_clock, tx_clock, rx_af_mode, tx_af_mode, nvic_entry) ==
    [w EXCEPT
        !.bc = createUART(w.bc, handle, uart_clock, baudrate, rx_port,
                          tx_port, rx_pin, tx_pin, rx_clock, tx_clock,
                          rx_af_mode, tx_af_mode, nvic_entry),
        !.currently_active_uart =
            createUARTPeripheral(handle, uart_clock, baudrate, rx_port,
                                 tx_port, rx_pin, tx_pin, rx_clock, tx_clock,
                                 rx_af_mode, tx_af_mode, nvic_entry)]

\* the token counts the handlers accept, the end-of-line token left out
INPUT_OUTPUT_MAX_ARGS == 3
ADC_MAX_ARGS == 2
UART_INIT_MAX_ARGS == 4

\* token.c: the vector with its count and capacity.  The handlers and the
\* scanner use the tokens alone, a sequence whose length is used.
initTokenVector == [tokens |-> <<>>, used |-> 0, capacity |-> 4]

appendTokenVector(vec, tok) ==
    [tokens   |-> Append(vec.tokens, tok),
     used     |-> vec.used + 1,
     capacity |-> IF vec.used = vec.capacity
                  THEN GROW_CAPACITY(vec.capacity)
                  ELSE vec.capacity]

sizeTokenVector(vec) == Len(vec)

\* the call of getTokenVector that never returns: with an index at or past
\* the size it prints "Element out of range" in a loop without end
OutOfRange == [type |-> "OUT_OF_RANGE", start |-> <<>>, length |-> 0]

\* index is 0-based as in C
getTokenVector(vec, index) ==
    IF index >= sizeTokenVector(vec) THEN OutOfRange ELSE vec[index + 1]

IsPull(type) ==
    type \in {"TOKEN_GPIO_NORESISTOR", "TOKEN_GPIO_PULLUP",
              "TOKEN_GPIO_PULLDOWN"}

\* the argument loop of inputOutput (parser.c:191-252); st.error is the
\* message of the return inside the loop, "" while there is none
RECURSIVE inputOutputArgs(_, _, _)
inputOutputArgs(vec, i, st) ==
    IF i >= sizeTokenVector(vec) THEN st
    ELSE
    LET current_token == getTokenVector(vec, i)
    IN  CASE current_token.type = "TOKEN_EOL" ->
                inputOutputArgs(vec, i + 1, st)
          [] current_token.type = "TOKEN_PORT_PIN" ->
                IF ~st.port_pin_set
                THEN LET pp == parsePortPin(current_token)
                     IN  IF ~pp.ok
                         THEN [st EXCEPT !.error =
                                    "Unable to parse GPIO identifer"]
                         ELSE inputOutputArgs(vec, i + 1,
                                [st EXCEPT !.port = pp.port, !.pin = pp.pin,
                                           !.port_pin_set = TRUE])
                ELSE [st EXCEPT !.error = "Multiple GPIO pins provided"]
          [] IsPull(current_token.type) ->
                IF ~st.pupd_set
                THEN inputOutputArgs(vec, i + 1,
                        [st EXCEPT
                            !.pupd =
                                IF current_token.type = "TOKEN_GPIO_NORESISTOR"
                                THEN "GPIO_PUPD_NONE"
                                ELSE IF current_token.type = "TOKEN_GPIO_PULLUP"
                                THEN "GPIO_PUPD_PULLUP"
                                ELSE "GPIO_PUPD_PULLDOWN",
                            !.pupd_set = TRUE])
                ELSE [st EXCEPT !.error =
                        "Multiple pullup/pulldown resistor configurations"]
          [] OTHER ->
                [st EXCEPT !.error = "Unrecognised token while parsing"]

\* a handler that takes a line of any length and goes on after an error
inputOutput_AnyCount(w, vec, input_output) ==
    LET st == inputOutputArgs(vec, 1,
                [pupd |-> "0", port |-> 0, pin |-> 0, port_pin_set |-> FALSE,
                 pupd_set |-> FALSE, error |-> ""])
        type_input_output == IF input_output = "OP_MAKE_INPUT"
                             THEN "TYPE_GPIO_INPUT" ELSE "TYPE_GPIO_OUTPUT"
        pin_exists == pinExists(w.bc, st.port, st.pin)
        clock == getClockFromPort(st.port)
    IN  IF ~(st.port_pin_set /\ st.pupd_set)
        THEN Fail(w, "Unable to parse identifiers")
        ELSE IF pin_exists = "TYPE_NONE"
        THEN IF clock = CLOCK_OUT_OF_BOUNDS
             THEN Fail(w, "Incorrect port clock identified")
             ELSE Done([w EXCEPT !.bc = createDigitalPin(
                            w.bc, st.port, st.pin, clock, type_input_output,
                            st.pupd)],
                       "created new pin")
        ELSE IF pin_exists \in {"TYPE_GPIO_INPUT", "TYPE_GPIO_OUTPUT"}
        THEN Done([w EXCEPT !.bc = mutateDigitalPin(
                        w.bc, st.port, st.pin, type_input_output, st.pupd)],
                  "modified existing pin")
        ELSE IF pin_exists = "TYPE_ADC"
        THEN Done([w EXCEPT !.bc = mutateADCToDigital(
                        w.bc, st.port, st.pin, clock, type_input_output,
                        st.pupd)],
                  "Modified ADC to GPIO pin")
        ELSE IF pin_exists = "TYPE_UART"
        THEN LET w1 == Printf(w, "warning", "Disabling entire UART port")
                 w2 == Kill(w1, st.port, st.pin)
             IN  Done([w2 EXCEPT !.bc = createDigitalPin(
                            w2.bc, st.port, st.pin, clock, type_input_output,
                            st.pupd)],
                      "Modified UART to GPIO pin")
        ELSE Fail(w, "Failed to modify pin")

inputOutput(w, vec, input_output) ==
    IF sizeTokenVector(vec) - 1 # INPUT_OUTPUT_MAX_ARGS
    THEN Fail(w, "Invalid input format")
    ELSE
    LET st == inputOutputArgs(vec, 1,
                [pupd |-> "0", port |-> 0, pin |-> 0, port_pin_set |-> FALSE,
                 pupd_set |-> FALSE, error |-> ""])
        type_input_output == IF input_output = "OP_MAKE_INPUT"
                             THEN "TYPE_GPIO_INPUT" ELSE "TYPE_GPIO_OUTPUT"
        pin_exists == pinExists(w.bc, st.port, st.pin)
        clock == getClockFromPort(st.port)
    IN  IF st.error # "" THEN Fail(w, st.error)
        ELSE IF ~(st.port_pin_set /\ st.pupd_set)
        THEN Fail(w, "Unable to parse identifiers")
        ELSE IF pin_exists = "TYPE_NONE"
        THEN IF clock = CLOCK_OUT_OF_BOUNDS
             THEN Fail(w, "Incorrect port clock identified")
             ELSE Done([w EXCEPT !.bc = createDigitalPin(
                            w.bc, st.port, st.pin, clock, type_input_output,
                            st.pupd)],
                       "created new pin")
        ELSE IF pin_exists \in {"TYPE_GPIO_INPUT", "TYPE_GPIO_OUTPUT"}
        THEN Done([w EXCEPT !.bc = mutateDigitalPin(
                        w.bc, st.port, st.pin, type_input_output, st.pupd)],
                  "modified existing pin")
        ELSE IF pin_exists = "TYPE_ADC"
        THEN Done([w EXCEPT !.bc = mutateADCToDigital(
                        w.bc, st.port, st.pin, clock, type_input_output,
                        st.pupd)],
                  "Modified ADC to GPIO pin")
        ELSE IF pin_exists = "TYPE_UART"
        THEN LET w1 == Printf(w, "warning", "Disabling entire UART port")
                 w2 == Kill(w1, st.port, st.pin)
             IN  Done([w2 EXCEPT !.bc = createDigitalPin(
                            w2.bc, st.port, st.pin, clock, type_input_output,
                            st.pupd)],
                      "Modified UART to GPIO pin")
        ELSE Fail(w, "Failed to modify pin")

(***************************************************************************)
(* board-control.c: actions on pins.  level is what gpio_get finds on the  *)
(* pin, sample what the converter delivers.                                *)
(***************************************************************************)
\* the first GPIO entry at the location, enabled or not, decides; hw holds
\* the gpio_set / gpio_clear / gpio_toggle call made
actionDigitalPin(b, port, pin, action, level) ==
    LET Hit(p) == GpioAt(p, port, pin)
        i == FirstIndex(b.peripherals, Hit)
        none == [ret |-> 0, hw |-> <<>>, printed |-> <<>>]
    IN  IF i = 0 THEN none
        ELSE IF b.peripherals[i].type = "TYPE_GPIO_INPUT"
        THEN IF action = "GPIO_READ"
             THEN [none EXCEPT !.ret = IF level > 0 THEN 1 ELSE 0]
             ELSE none
        ELSE IF action \in {"GPIO_SET", "GPIO_CLEAR", "GPIO_TOGGLE"}
        THEN [none EXCEPT !.hw = <<[call |-> action, port |-> port,
                                    pin |-> pin]>>]
        ELSE [none EXCEPT !.printed = <<[kind |-> "error",
                                text |-> "port/pin provided is not GPIO"]>>]

\* the first ADC entry at the location, enabled or not, is converted
actionAnalogPin(b, port, pin, sample) ==
    LET Hit(p) == AdcAt(p, port, pin)
        i == FirstIndex(b.peripherals, Hit)
    IN  IF i = 0
        THEN [ret |-> 0, hw |-> <<>>,
              printed |-> <<[kind |-> "error",
                             text |-> "could not read pin"]>>]
        ELSE [ret |-> sample,
              hw |-> <<[call |-> "adc_start_conversion_regular",
                        port |-> port, pin |-> pin]>>,
              printed |-> <<>>]

\* readUARTPort: the first enabled UART of the table is copied out and
\* passed by value to currentUartDataAvailable and currentUartReadByte, so
\* each byte is read from the same unchanged copy of its ring buffer
readUARTPort(b, len) ==
    LET i == uartExists(b)
    IN  IF i = 0
        THEN [count |-> 0, data |-> <<>>,
              printed |-> <<[kind |-> "error", text |-> "No uart exists"]>>]
        ELSE LET uart_to_read == b.peripherals[i].peripheral.uart
             IN  IF ~coreRingBufferEmpty(uart_to_read.rb) /\ 0 < len
                 THEN [count |-> len,
                       data |-> [k \in 1 .. len |->
                                    coreRingBufferRead(uart_to_read.rb).byte],
                       printed |-> <<>>]
                 ELSE [count |-> 0, data |-> <<>>, printed |-> <<>>]

\* writeUARTPort: len bytes from data go to usart_send_blocking in order
writeUARTPort(b, data, len) ==
    LET i == uartExists(b)
    IN  IF i = 0
        THEN [count |-> 0, hw |-> <<>>,
              printed |-> <<[kind |-> "error", text |-> "No uart exists"]>>]
        ELSE [count |-> len,
              hw |-> [k \in 1 .. len |->
                        [call |-> "usart_send_blocking",
                         handle |-> b.peripherals[i].peripheral.uart.handle,
                         byte |-> data[k]]],
              printed |-> <<>>]

(***************************************************************************)
(* parser.c: set / reset / toggle / read, adc, uart                        *)
(***************************************************************************)
GpioActionOf(operation) ==
    CASE operation = "OP_SET"    -> "GPIO_SET"
      [] operation = "OP_RESET"  -> "GPIO_CLEAR"
      [] operation = "OP_TOGGLE" -> "GPIO_TOGGLE"
      [] operation = "OP_READ"   -> "GPIO_READ"

\* one performed action: what was printed and driven, and the response
Acted(w, a, port, pin, operation) ==
    [w EXCEPT !.printed = @ \o a.printed
                            \o <<[kind |-> "info", text |-> operation]>>,
              !.hw = @ \o a.hw,
              !.acted = Append(@, [port |-> port, pin |-> pin,
                                   operation |-> operation,
                                   read_response |-> a.ret])]

\* the loop of setResetToggleRead from token i on
RECURSIVE setResetToggleReadFrom(_, _, _, _, _)
setResetToggleReadFrom(w, vec, i, operation, env) ==
    IF i >= sizeTokenVector(vec) THEN [w |-> w, ret |-> TRUE]
    ELSE
    LET current_token == getTokenVector(vec, i)
        pp == parsePortPin(current_token)
        role == pinExists(w.bc, pp.port, pp.pin)
    IN  IF current_token.type = "TOKEN_EOL"
        THEN setResetToggleReadFrom(w, vec, i + 1, operation, env)
        ELSE IF current_token.type = "TOKEN_PORT_PIN"
        THEN IF ~pp.ok THEN Fail(w, "Unrecognised port pin")
             ELSE IF role = "TYPE_GPIO_INPUT" \/ role = "TYPE_GPIO_OUTPUT"
             THEN IF operation \in {"OP_SET", "OP_RESET", "OP_TOGGLE",
                                    "OP_READ"}
                  THEN setResetToggleReadFrom(
                          Acted(w, actionDigitalPin(w.bc, pp.port, pp.pin,
                                                    GpioActionOf(operation),
                                                    env.level),
                                pp.port, pp.pin, operation),
                          vec, i + 1, operation, env)
                  ELSE Fail(w, "Incorrect op code provided")
             ELSE IF role = "TYPE_ADC"
             THEN IF operation = "OP_READ"
                  THEN setResetToggleReadFrom(
                          Acted(w, actionAnalogPin(w.bc, pp.port, pp.pin,
                                                   env.sample),
                                pp.port, pp.pin, operation),
                          vec, i + 1, operation, env)
                  ELSE Fail(w, "operation is unavailable for ADC")
             ELSE Fail(w, "Port Pin identifer is not initialised")
        ELSE Fail(w, "Unrecognised token while parsing")

setResetToggleRead(w, vec, operation, env) ==
    setResetToggleReadFrom(w, vec, 1, operation, env)

\* the argument loop of adc (parser.c:467-507)
RECURSIVE adcArgs(_, _, _)
adcArgs(vec, i, st) ==
    IF i >= sizeTokenVector(vec) THEN st
    ELSE
    LET current_token == getTokenVector(vec, i)
    IN  CASE current_token.type = "TOKEN_EOL" -> adcArgs(vec, i + 1, st)
          [] current_token.type = "TOKEN_PORT_PIN" ->
                IF ~st.port_pin_set
                THEN LET pp == parsePortPin(current_token)
                     IN  IF ~pp.ok
                         THEN [st EXCEPT !.error =
                                    "Unable to parse ADC identifer"]
                         ELSE adcArgs(vec, i + 1,
                                [st EXCEPT !.port = pp.port, !.pin = pp.pin,
                                           !.port_pin_set = TRUE])
                ELSE [st EXCEPT !.error = "Multiple ADC pins provided"]
          [] OTHER ->
                [st EXCEPT !.error = "Unrecognised token while parsing"]

adc(w, vec) ==
    IF sizeTokenVector(vec) - 1 # ADC_MAX_ARGS
    THEN Fail(w, "Invalid input format")
    ELSE
    LET st == adcArgs(vec, 1, [port |-> 0, pin |-> 0,
                               port_pin_set |-> FALSE, error |-> ""])
        pin_exists  == pinExists(w.bc, st.port, st.pin)
        clock       == getClockFromPort(st.port)
        base        == "ADC1"
        channel     == getADCChannelFromPortPin(st.port, st.pin)
        sample_time == "ADC_SMPR_SMP_3CYC"
        NoChannel(v) ==
            Fail(Printf(v, "error", "This pin is not usable for ADC"),
                 "Pin is not available for use as ADC")
    IN  IF st.error # "" THEN Fail(w, st.error)
        ELSE IF ~st.port_pin_set THEN Fail(w, "Unrecognised pin")
        ELSE IF pin_exists \in {"TYPE_GPIO_INPUT", "TYPE_GPIO_OUTPUT"}
        THEN IF channel = ADC_OUT_OF_BOUNDS THEN NoChannel(w)
             ELSE Done([w EXCEPT !.bc = mutateDigitalToADC(
                            w.bc, st.port, st.pin, clock, sample_time, base,
                            channel)],
                       "Modified GPIO to ADC pin")
        ELSE IF pin_exists = "TYPE_UART"
        THEN LET w1 == Printf(w, "warning", "Disabling entire UART port")
                 w2 == Kill(w1, st.port, st.pin)
             IN  IF channel = ADC_OUT_OF_BOUNDS THEN NoChannel(w2)
                 ELSE Done([w2 EXCEPT !.bc = createAnalogPin(
                                w2.bc, st.port, st.pin, clock, sample_time,
                                base, channel)],
                           "created new ADC pin")
        ELSE IF pin_exists = "TYPE_ADC" THEN [w |-> w, ret |-> TRUE]
        ELSE IF pin_exists = "TYPE_NONE"
        THEN IF channel = ADC_OUT_OF_BOUNDS THEN NoChannel(w)
             ELSE Done([w EXCEPT !.bc = createAnalogPin(
                            w.bc, st.port, st.pin, clock, sample_time, base,
                            channel)],
                       "created new ADC pin")
        ELSE Fail(w, "Not implemented yet")

\* the argument loop of uartInitialise (parser.c:682-751)
RECURSIVE uartInitialiseArgs(_, _, _)
uartInitialiseArgs(vec, i, st) ==
    IF i >= sizeTokenVector(vec) THEN st
    ELSE
    LET current_token == getTokenVector(vec, i)
        pp   == parsePortPin(current_token)
        baud == strtoul(current_token.start)
    IN  CASE current_token.type = "TOKEN_PORT_PIN" ->
                IF ~st.rx_port_pin_set /\ ~st.tx_port_pin_set
                THEN IF ~pp.ok
                     THEN [st EXCEPT !.error = "Unable to parse UART RX pin"]
                     ELSE uartInitialiseArgs(vec, i + 1,
                            [st EXCEPT !.rx_port = pp.port, !.rx_pin = pp.pin,
                                       !.rx_port_pin_set = TRUE])
                ELSE IF st.rx_port_pin_set /\ ~st.tx_port_pin_set
                THEN IF ~pp.ok
                     THEN [st EXCEPT !.error = "Unable to parse UART TX pin"]
                     ELSE uartInitialiseArgs(vec, i + 1,
                            [st EXCEPT !.tx_port = pp.port, !.tx_pin = pp.pin,
                                       !.tx_port_pin_set = TRUE])
                ELSE [st EXCEPT !.error =
                        "too many port pin identifiers provided"]
          [] current_token.type = "TOKEN_NUMBER" ->
                IF ~st.baud_rate_set
                THEN IF baud = 9600 \/ baud = 57600 \/ baud = 115200
                     THEN uartInitialiseArgs(vec, i + 1,
                            [st EXCEPT !.baud_rate = baud,
                                       !.baud_rate_set = TRUE])
                     ELSE [st EXCEPT !.error =
                            "Baud rate must be either 9600, 57600, or 115200"]
                ELSE uartInitialiseArgs(vec, i + 1, st)
          [] current_token.type = "TOKEN_EOL" ->
                uartInitialiseArgs(vec, i + 1, st)
          [] OTHER ->
                [st EXCEPT !.error = "Unrecognised token while parsing"]

uartInitialise(w, vec) ==
    IF sizeTokenVector(vec) - 1 # UART_INIT_MAX_ARGS
    THEN Fail(w, "Invalid input format")
    ELSE
    LET st == uartInitialiseArgs(vec, 1,
                [rx_port |-> 0, rx_pin |-> 0, tx_port |-> 0, tx_pin |-> 0,
                 baud_rate |-> 0, rx_port_pin_set |-> FALSE,
                 tx_port_pin_set |-> FALSE, baud_rate_set |-> FALSE,
                 error |-> ""])
        rx_validity == getUARTInfo(st.rx_port, st.rx_pin)
        tx_validity == getUARTInfo(st.tx_port, st.tx_pin)
        handle      == rx_validity.handle
        uart_clock  == getUARTclock(handle)
        rx_clock    == getClockFromPort(st.rx_port)
        tx_clock    == getClockFromPort(st.tx_port)
        rx_exists   == pinExists(w.bc, st.rx_port, st.rx_pin)
        tx_exists   == pinExists(w.bc, st.tx_port, st.tx_pin)
        nvic_entry  == getUARTNVICEntry(handle)
        \* "Baud rate selected" is printed inside the loop, when the number
        \* token is accepted
        w0 == IF st.baud_rate_set
              THEN Printf(w, "info", "Baud rate selected") ELSE w
        Build(v) ==
            Done(StoreUART(v, handle, uart_clock, st.baud_rate, st.rx_port,
                           st.tx_port, st.rx_pin, st.tx_pin, rx_clock,
                           tx_clock, rx_validity.af_mode, tx_validity.af_mode,
                           nvic_entry),
                 "Created new UART peripheral")
    IN  IF st.error # "" THEN Fail(w0, st.error)
        ELSE IF ~(st.rx_port_pin_set /\ st.tx_port_pin_set
                  /\ st.baud_rate_set)
        THEN Fail(w0, "could not recognise pins")
        ELSE IF ~rx_validity.isValid \/ ~tx_validity.isValid
        THEN Fail(w0, "pins provided are not available as UART")
        ELSE IF ~rx_validity.isRx \/ ~tx_validity.isTx
        THEN Fail(w0, "pins provided cannot be used as TX/RX")
        ELSE IF ~(rx_validity.handle = tx_validity.handle)
        THEN Fail(w0, "Pins are not for the same UART peripheral")
        ELSE IF nvic_entry = "0"
        THEN Fail(w0, "Could not find NVIC entry for that UART port")
        ELSE IF rx_exists = "TYPE_NONE" /\ tx_exists = "TYPE_NONE"
        THEN Build(w0)
        ELSE IF rx_exists # "TYPE_NONE" /\ tx_exists = "TYPE_NONE"
        THEN Build(Kill(w0, st.rx_port, st.rx_pin))
        ELSE IF rx_exists = "TYPE_NONE" /\ tx_exists # "TYPE_NONE"
        THEN Build(Kill(w0, st.tx_port, st.tx_pin))
        ELSE Build(Kill(Kill(w0, st.rx_port, st.rx_pin),
                        st.tx_port, st.tx_pin))

UART_MAX_READ == 32

\* a uart that looks for the string one token too far
uart_StringIndex(w, vec) ==
    LET next_token == getTokenVector(vec, 1)
    IN  IF next_token.type = OutOfRange.type THEN Spin(w)
        ELSE IF next_token.type = "TOKEN_PORT_PIN" THEN uartInitialise(w, vec)
        ELSE IF next_token.type = "TOKEN_WRITE"
        THEN LET string_token == getTokenVector(vec, 3)
             IN  IF string_token.type = OutOfRange.type THEN Spin(w)
                 ELSE Fail(w, "uart write must be followed by string")
        ELSE Fail(w, "uart keyword must be followed by port pin, read or write")

uart(w, vec) ==
    LET next_token == getTokenVector(vec, 1)
    IN  IF next_token.type = OutOfRange.type THEN Spin(w)
        ELSE IF next_token.type = "TOKEN_PORT_PIN" THEN uartInitialise(w, vec)
        ELSE IF next_token.type = "TOKEN_GPIO_READ"
        THEN LET r  == readUARTPort(w.bc, UART_MAX_READ)
                 w1 == [w EXCEPT !.printed = @ \o r.printed,
                                 !.acted = Append(@, [operation |-> "UART_READ",
                                                      data |-> r.data,
                                                      count |-> r.count])]
             IN  IF r.count > 0 THEN Done(w1, "UART READ")
                 ELSE Fail(w1, "UART buffer empty")
        ELSE IF next_token.type = "TOKEN_WRITE"
        THEN LET string_token == getTokenVector(vec, 2)
             IN  IF string_token.type = OutOfRange.type THEN Spin(w)
                 ELSE IF string_token.type = "TOKEN_STRING"
                 THEN LET r == writeUARTPort(w.bc, string_token.start,
                                             string_token.length)
                      IN  Done([w EXCEPT
                                    !.printed = @ \o r.printed,
                                    !.hw = @ \o r.hw,
                                    !.acted = Append(@,
                                        [operation |-> "UART_WRITE",
                                         count |-> r.count])],
                               "UART WROTE BYTES")
                 ELSE Fail(w, "uart write must be followed by string")
        ELSE Fail(w, "uart keyword must be followed by port pin, read or write")

\* a dispatch that takes write as a first word for a uart line
parseTokensAndExecute_WriteIsUart(w, vec, env) ==
    LET first_token == getTokenVector(vec, 0)
    IN  CASE first_token.type = OutOfRange.type -> Spin(w)
          [] first_token.type = "TOKEN_GPIO_INPUT" ->
                inputOutput(w, vec, "OP_MAKE_INPUT")
          [] first_token.type = "TOKEN_GPIO_OUTPUT" ->
                inputOutput(w, vec, "OP_MAKE_OUTPUT")
          [] first_token.type = "TOKEN_GPIO_SET" ->
                setResetToggleRead(w, vec, "OP_SET", env)
          [] first_token.type = "TOKEN_GPIO_RESET" ->
                setResetToggleRead(w, vec, "OP_RESET", env)
          [] first_token.type = "TOKEN_GPIO_TOGGLE" ->
                setResetToggleRead(w, vec, "OP_TOGGLE", env)
          [] first_token.type = "TOKEN_GPIO_READ" ->
                setResetToggleRead(w, vec, "OP_READ", env)
          [] first_token.type = "TOKEN_ADC" -> adc(w, vec)
          [] first_token.type \in {"TOKEN_UART", "TOKEN_WRITE"} ->
                uart(w, vec)
          [] OTHER -> Fail(w, "Invalid line logic")

parseTokensAndExecute(w, vec, env) ==
    LET first_token == getTokenVector(vec, 0)
    IN  CASE first_token.type = OutOfRange.type -> Spin(w)
          [] first_token.type = "TOKEN_GPIO_INPUT" ->
                inputOutput(w, vec, "OP_MAKE_INPUT")
          [] first_token.type = "TOKEN_GPIO_OUTPUT" ->
                inputOutput(w, vec, "OP_MAKE_OUTPUT")
          [] first_token.type = "TOKEN_GPIO_SET" ->
                setResetToggleRead(w, vec, "OP_SET", env)
          [] first_token.type = "TOKEN_GPIO_RESET" ->
                setResetToggleRead(w, vec, "OP_RESET", env)
          [] first_token.type = "TOKEN_GPIO_TOGGLE" ->
                setResetToggleRead(w, vec, "OP_TOGGLE", env)
          [] first_token.type = "TOKEN_GPIO_READ" ->
                setResetToggleRead(w, vec, "OP_READ", env)
          [] first_token.type = "TOKEN_ADC" -> adc(w, vec)
          [] first_token.type = "TOKEN_UART" -> uart(w, vec)
          [] OTHER -> Fail(w, "Invalid line logic")

(***************************************************************************)
(* interpreter.c: the scanner.  A Scanner is the line with two offsets     *)
(* into it, start and current; a token's start is the text from its first  *)
(* character to the end of the line.                                       *)
(***************************************************************************)
PORTA_STM32F411RE == Ord("A")
PORTa_STM32F411RE == Ord("a")
PORTE_STM32F411RE == Ord("E")
PORTe_STM32F411RE == Ord("e")
PIN0  == Ord("0")
PIN9  == Ord("9")
PIN15 == Ord("5")
PIN10 == Ord("1")

peek(source, current) == CharAt(source, current)

isDigit(c) == c >= Ord("0") /\ c <= Ord("9")

isAlpha(c) ==
    (c >= Ord("a") /\ c <= Ord("z")) \/ (c >= Ord("A") /\ c <= Ord("Z"))
        \/ c = Ord("_")

\* ' ', '\r', '\t' and '\n' are skipped
RECURSIVE skipWhitespace(_, _)
skipWhitespace(source, current) ==
    IF peek(source, current) \in {32, 13, 9, 10}
    THEN skipWhitespace(source, current + 1)
    ELSE current

is_at_end(source, current) == peek(source, current) = 0

\* a token one character longer than what was scanned
makeToken_OneMore(source, start, current, type) ==
    [type   |-> type,
     start  |-> SubSeq(source, start + 1, Len(source)),
     length |-> current - start + 1]

makeToken(source, start, current, type) ==
    [type   |-> type,
     start  |-> SubSeq(source, start + 1, Len(source)),
     length |-> current - start]

isValidPortPinStartingChar(c) ==
    (c >= PORTa_STM32F411RE /\ c <= PORTe_STM32F411RE) \/
    (c >= PORTA_STM32F411RE /\ c <= PORTE_STM32F411RE)

\* start[1] and start[2] are read from the line wherever the identifier
\* run ends
isValidPortPin(source, start) ==
    IF isValidPortPinStartingChar(CharAt(source, start))
    THEN IF CharAt(source, start + 1) = PIN0
         THEN IF CharAt(source, start + 2) >= PIN0 /\
                 CharAt(source, start + 2) <= PIN9
              THEN "TOKEN_PORT_PIN" ELSE "TOKEN_ERROR"
         ELSE IF CharAt(source, start + 1) = PIN10
         THEN IF CharAt(source, start + 2) >= PIN0 /\
                 CharAt(source, start + 2) <= PIN15
              THEN "TOKEN_PORT_PIN" ELSE "TOKEN_ERROR"
         ELSE "TOKEN_ERROR"
    ELSE "TOKEN_ERROR"

\* from is the parameter the source calls start: the offset of rest in the
\* word
checkKeyword(source, start, current, from, length, rest, type) ==
    IF current - start = from + length /\
       \A k \in 0 .. length - 1 :
           CharAt(source, start + from + k) = Ord(rest[k + 1])
    THEN type
    ELSE isValidPortPin(source, start)

identifierType(source, start, current) ==
    LET c0 == source[start + 1]
        c1 == IF start + 1 < Len(source) THEN source[start + 2] ELSE ""
        c2 == IF start + 2 < Len(source) THEN source[start + 3] ELSE ""
        kw(from, length, rest, type) ==
            checkKeyword(source, start, current, from, length, rest, type)
    IN  CASE c0 = "a" -> kw(1, 2, <<"d", "c">>, "TOKEN_ADC")
          [] c0 = "i" -> kw(1, 4, <<"n", "p", "u", "t">>, "TOKEN_GPIO_INPUT")
          [] c0 = "n" -> kw(1, 3, <<"o", "n", "e">>, "TOKEN_GPIO_NORESISTOR")
          [] c0 = "o" ->
                kw(1, 5, <<"u", "t", "p", "u", "t">>, "TOKEN_GPIO_OUTPUT")
          [] c0 = "s" -> kw(1, 2, <<"e", "t">>, "TOKEN_GPIO_SET")
          [] c0 = "r" /\ current - start > 2 /\ c1 = "e" /\ c2 = "a" ->
                kw(3, 1, <<"d">>, "TOKEN_GPIO_READ")
          [] c0 = "r" /\ current - start > 2 /\ c1 = "e" /\ c2 = "s" ->
                kw(3, 2, <<"e", "t">>, "TOKEN_GPIO_RESET")
          [] c0 = "p" /\ current - start > 1 /\ c1 = "u" ->
                kw(2, 1, <<"p">>, "TOKEN_GPIO_PULLUP")
          [] c0 = "p" /\ current - start > 1 /\ c1 = "d" ->
                kw(2, 3, <<"o", "w", "n">>, "TOKEN_GPIO_PULLDOWN")
          [] c0 = "t" ->
                kw(1, 5, <<"o", "g", "g", "l", "e">>, "TOKEN_GPIO_TOGGLE")
          [] c0 = "w" -> kw(1, 4, <<"r", "i", "t", "e">>, "TOKEN_WRITE")
          [] OTHER -> isValidPortPin(source, start)

\* the offset after the run of letters, digits and underscores from current
RECURSIVE identifierEnd(_, _)
identifierEnd(source, current) ==
    IF isAlpha(peek(source, current)) \/ isDigit(peek(source, current))
    THEN identifierEnd(source, current + 1)
    ELSE current

\* identifier, number and string return the token and leave the scanner
\* at current
identifier(source, start, current) ==
    LET end == identifierEnd(source, current)
    IN  [token   |-> makeToken(source, start, end,
                               identifierType(source, start, end)),
         current |-> end]

RECURSIVE numberEnd(_, _)
numberEnd(source, current) ==
    IF isDigit(peek(source, current)) THEN numberEnd(source, current + 1)
    ELSE current

number(source, start, current) ==
    LET end == numberEnd(source, current)
    IN  [token |-> makeToken(source, start, end, "TOKEN_NUMBER"),
         current |-> end]

RECURSIVE stringEnd(_, _)
stringEnd(source, current) ==
    IF peek(source, current) # Ord("\"") /\ ~is_at_end(source, current)
    THEN stringEnd(source, current + 1)
    ELSE current

\* a string that takes the end of the line for the closing quote
string_EndCloses(source, start, current) ==
    LET end == stringEnd(source, current)
    IN  [token |-> makeToken(source, start, end, "TOKEN_STRING"),
         current |-> end]

\* the token runs from the opening quote to the closing quote, both
\* included
string(source, start, current) ==
    LET end == stringEnd(source, current)
    IN  IF is_at_end(source, end)
        THEN [token |-> makeToken(source, start, end, "TOKEN_ERROR"),
              current |-> end]
        ELSE [token |-> makeToken(source, start, end + 1, "TOKEN_STRING"),
              current |-> end + 1]

\* The(S) is the element of the one-element set S; { e : x \in {v} } gives
\* the value v the name x in e.
The(S) == CHOOSE r \in S : TRUE

\* the token the loop body scans from its first character at start
\* (interpreter.c:422-446)
scanToken(source, start) ==
    IF isAlpha(CharAt(source, start))
    THEN identifier(source, start, start + 1)
    ELSE IF isDigit(CharAt(source, start))
    THEN number(source, start, start + 1)
    ELSE IF CharAt(source, start) = Ord("\"")
    THEN string(source, start, start + 1)
    ELSE [token   |-> makeToken(source, start, start + 1, "TOKEN_ERROR"),
          current |-> start + 1]

\* the scanning loop of interpret (interpreter.c:414-455): the tokens
\* appended, and whether the loop returned on an error token.  scanStep is
\* one turn of the loop after the white space was skipped.
RECURSIVE scanLine(_, _, _)
scanStep(source, start, tokvec) ==
    IF is_at_end(source, start)
    THEN [tokvec |-> Append(tokvec,
                            makeToken(source, start, start, "TOKEN_EOL")),
          error  |-> FALSE]
    ELSE The({ IF t.token.type = "TOKEN_ERROR"
               THEN [tokvec |-> Append(tokvec, t.token), error |-> TRUE]
               ELSE scanLine(source, t.current, Append(tokvec, t.token)) :
               t \in {scanToken(source, start)} })

scanLine(source, current, tokvec) ==
    The({ scanStep(source, start, tokvec) :
          start \in {skipWhitespace(source, current)} })

\* an interpret that hands the vector to the parser whether or not the
\* scan ended on an error token
interpret_ParsesAfterError(w, source, env) ==
    The({ The({ [w |-> r.w, ret |-> r.ret, tokvec |-> s.tokvec] :
                r \in {parseTokensAndExecute(w, s.tokvec, env)} }) :
          s \in {scanLine(source, 0, <<>>)} })

\* what interpret does with the scanned vector (interpreter.c:457-467)
interpretScanned(w, s, env) ==
    IF s.error
    THEN [w      |-> Printf(w, "scan_error", "Could not parse"),
          ret    |-> FALSE,
          tokvec |-> s.tokvec]
    ELSE The({ [w |-> r.w, ret |-> r.ret, tokvec |-> s.tokvec] :
               r \in {parseTokensAndExecute(w, s.tokvec, env)} })

\* interpret: the line is scanned; an error token is printed and ends the
\* call, otherwise the vector goes to parseTokensAndExecute.  tokvec is the
\* vector as it was when it was freed.
interpret(w, source, env) ==
    The({ interpretScanned(w, s, env) : s \in {scanLine(source, 0, <<>>)} })

(***************************************************************************)
(* Command lines as token vectors.  A line is a list of words separated    *)
(* by one space; each token points at its word in the line (start is the   *)
(* text from the word to the end of the line) and the vector ends with     *)
(* the end-of-line token, as interpret builds it.                          *)
(***************************************************************************)
Word(type, text) == [type |-> type, text |-> text]

RECURSIVE LineFrom(_, _)
LineFrom(words, k) ==
    IF k > Len(words) THEN <<>>
    ELSE IF k = Len(words) THEN words[k].text
    ELSE words[k].text \o <<" ">> \o LineFrom(words, k + 1)

TokensOf(words) ==
    [k \in 1 .. Len(words) + 1 |->
        IF k <= Len(words)
        THEN [start |-> LineFrom(words, k), type |-> words[k].type,
              length |-> Len(words[k].text)]
        ELSE [start |-> <<>>, type |-> "TOKEN_EOL", length |-> 0]]

KwInput  == Word("TOKEN_GPIO_INPUT",  <<"i", "n", "p", "u", "t">>)
KwOutput == Word("TOKEN_GPIO_OUTPUT", <<"o", "u", "t", "p", "u", "t">>)
KwSet    == Word("TOKEN_GPIO_SET",    <<"s", "e", "t">>)
KwReset  == Word("TOKEN_GPIO_RESET",  <<"r", "e", "s", "e", "t">>)
KwToggle == Word("TOKEN_GPIO_TOGGLE", <<"t", "o", "g", "g", "l", "e">>)
KwRead   == Word("TOKEN_GPIO_READ",   <<"r", "e", "a", "d">>)
KwAdc    == Word("TOKEN_ADC",         <<"a", "d", "c">>)
KwUart   == Word("TOKEN_UART",        <<"u", "a", "r", "t">>)
KwWrite  == Word("TOKEN_WRITE",       <<"w", "r", "i", "t", "e">>)
KwNone   == Word("TOKEN_GPIO_NORESISTOR", <<"n", "o", "n", "e">>)

\* the locations commands name: A0 can be analog, A9/A10 are the TX/RX of
\* USART1 and A11/A12 the TX/RX of USART6
PinA00 == Word("TOKEN_PORT_PIN", <<"A", "0", "0">>)
PinA09 == Word("TOKEN_PORT_PIN", <<"A", "0", "9">>)
PinA10 == Word("TOKEN_PORT_PIN", <<"A", "1", "0">>)
PinA11 == Word("TOKEN_PORT_PIN", <<"A", "1", "1">>)
PinA12 == Word("TOKEN_PORT_PIN", <<"A", "1", "2">>)

UartPins == {PinA09, PinA10, PinA11, PinA12}
Pins     == {PinA00, PinA11}
Pulls    == {KwNone}
Bauds    == {Word("TOKEN_NUMBER", <<"9", "6", "0", "0">>),
             Word("TOKEN_NUMBER", <<"1", "2", "0", "0">>)}
Hi       == Word("TOKEN_STRING", <<"\"", "h", "i", "\"">>)

\* the converter delivers a sample of 0 or MaxSample
MaxSample == 1
Envs == {[level |-> 0, sample |-> 0], [level |-> 1, sample |-> MaxSample]}

\* nothing returned, printed, driven or killed: the console between lines
NoOutput == [ret |-> TRUE, printed |-> <<>>, hw |-> <<>>, kills |-> <<>>,
             acted |-> <<>>]

BoardInit ==
    /\ bc = initBoard
    /\ currently_active_uart =
          [createUARTPeripheral("0", "0", 0, 0, 0, 0, 0, "0", "0", "0", "0",
                                "0")
             EXCEPT !.RX.mode = "0", !.TX.mode = "0",
                    !.RX.pupd_resistor = "0", !.TX.pupd_resistor = "0",
                    !.rb = [buffer |-> <<>>, read_index |-> 0,
                            write_index |-> 0, mask |-> 0]]
    /\ line = <<>>
    /\ cmd = <<>>
    /\ out = NoOutput

\* the process is stuck in the endless loop of getTokenVector
Spinning ==
    \E k \in 1 .. Len(out.printed) : out.printed[k].kind = "fatal"

\* repl: a completed line is interpreted, and interpret hands its token
\* vector to parseTokensAndExecute; out keeps what the command returned,
\* printed and drove, and the kills it issued; the line is the text the
\* first token points into
Execute(vec, env) ==
    cmd = <<>> /\ ~Spinning /\
    \E r \in {parseTokensAndExecute(World(bc, currently_active_uart), vec,
                                     env)} :
        /\ Len(r.w.bc.peripherals) <= MaxPeripherals
        /\ bc' = r.w.bc
        /\ currently_active_uart' = r.w.currently_active_uart
        /\ line' = getTokenVector(vec, 0).start
        /\ cmd' = vec
        /\ out' = [ret |-> r.ret, printed |-> r.w.printed, hw |-> r.w.hw,
                   kills |-> r.w.kills, acted |-> r.w.acted]
        /\ UNCHANGED ringVars

NoEnv == [level |-> 0, sample |-> 0]

InputOutputCmd ==
    \E kw \in {KwInput, KwOutput}, pin \in Pins, pull \in Pulls :
        Execute(TokensOf(<<kw, pin, pull>>), NoEnv)

ActionCmd ==
    \E kw \in {KwSet, KwReset, KwToggle, KwRead}, pin \in Pins, env \in Envs :
        Execute(TokensOf(<<kw, pin>>), env)

AdcCmd ==
    \E pin \in Pins : Execute(TokensOf(<<KwAdc, pin>>), NoEnv)

UartInitCmd ==
    \E rx \in UartPins, tx \in UartPins, baud \in Bauds :
        Execute(TokensOf(<<KwUart, rx, tx, baud>>), NoEnv)

UartReadCmd == Execute(TokensOf(<<KwUart, KwRead>>), NoEnv)

UartWriteCmd == Execute(TokensOf(<<KwUart, KwWrite, Hi>>), NoEnv)

\* repl: after interpret returns, the line is cleared for the next one
clearLine ==
    /\ cmd # <<>>
    /\ ~Spinning
    /\ line' = <<>>
    /\ cmd' = <<>>
    /\ out' = NoOutput
    /\ UNCHANGED <<bc, currently_active_uart>>
    /\ UNCHANGED ringVars

\* lines that only make digital pins, and the UART initialisation that
\* kills one of them, over both pull settings and a second port
KwPullup == Word("TOKEN_GPIO_PULLUP", <<"p", "u", "p">>)
PinB00   == Word("TOKEN_PORT_PIN", <<"B", "0", "0">>)

DigitalCmd ==
    \E kw \in {KwInput, KwOutput}, pin \in {PinA00, PinA11, PinB00},
       pull \in {KwNone, KwPullup} :
        Execute(TokensOf(<<kw, pin, pull>>), NoEnv)

UartOverDigitalCmd ==
    \E baud \in Bauds :
        Execute(TokensOf(<<KwUart, PinA12, PinA11, baud>>), NoEnv)


(***************************************************************************)
(* Command lines as text, given to interpret as the repl gives them.       *)
(***************************************************************************)
KwPulldown == Word("TOKEN_GPIO_PULLDOWN", <<"p", "d", "o", "w", "n">>)
\* the long spellings of the two pull keywords, which the scanner does not
\* know
Pullup   == Word("TOKEN_GPIO_PULLUP", <<"p", "u", "l", "l", "u", "p">>)
Pulldown == Word("TOKEN_GPIO_PULLDOWN", <<"p", "u", "l", "l", "d", "o", "w", "n">>)
Pina00  == Word("TOKEN_PORT_PIN", <<"a", "0", "0">>)
PinB15  == Word("TOKEN_PORT_PIN", <<"B", "1", "5">>)
PinA5   == Word("TOKEN_PORT_PIN", <<"A", "5">>)
PinB3   == Word("TOKEN_PORT_PIN", <<"B", "3">>)
PinA16  == Word("TOKEN_PORT_PIN", <<"A", "1", "6">>)
PinA100 == Word("TOKEN_PORT_PIN", <<"A", "1", "0", "0">>)
PinF00  == Word("TOKEN_PORT_PIN", <<"F", "0", "0">>)
PinA9   == Word("TOKEN_PORT_PIN", <<"A", "9">>)
Foo     == Word("TOKEN_ERROR", <<"f", "o", "o">>)
Bang    == Word("TOKEN_ERROR", <<"!">>)
Inputs  == Word("TOKEN_ERROR", <<"i", "n", "p", "u", "t", "s">>)
Unclosed == Word("TOKEN_ERROR", <<"\"", "h", "i">>)
Baud115200 == Word("TOKEN_NUMBER", <<"1", "1", "5", "2", "0", "0">>)

Keywords == {KwInput, KwOutput, KwSet, KwReset, KwToggle, KwRead, KwAdc,
             KwUart, KwWrite, KwPullup, KwPulldown, KwNone, Pullup, Pulldown}

ReplPins  == {PinA00, Pina00, PinB15, PinA5, PinA16, PinA100}
ReplPulls == {KwNone, KwPullup}

\* the lines typed: the digital, action and adc commands over ReplPins,
\* every keyword alone, the uart commands, and malformed lines
ReplLines ==
    {LineFrom(<<kw, pin, pull>>, 1) :
        kw \in {KwInput, KwOutput}, pin \in ReplPins, pull \in ReplPulls}
    \cup {LineFrom(<<kw, pin>>, 1) :
        kw \in {KwSet, KwReset, KwToggle, KwRead, KwAdc}, pin \in ReplPins}
    \cup {LineFrom(<<kw>>, 1) : kw \in Keywords}
    \cup {LineFrom(ws, 1) : ws \in
            {<<>>,
             <<KwOutput, PinB3, Pullup>>, <<KwSet, PinB3>>,
             <<KwOutput, PinB15, Pullup>>, <<KwInput, PinA00, Pulldown>>,
             <<KwInput, PinB15, KwPulldown>>, <<KwPulldown>>,
             <<KwInput, PinF00, KwNone>>,
             <<KwUart, PinA10, PinA09, Word("TOKEN_NUMBER", <<"9", "6", "0", "0">>)>>,
             <<KwUart, PinA9, PinA10, Baud115200>>,
             <<KwUart, KwRead>>, <<KwUart, KwWrite>>, <<KwUart, KwWrite, Hi>>,
             <<KwWrite, Hi>>, <<KwRead, Hi>>, <<KwAdc, KwRead>>,
             <<Foo, PinA5>>, <<Foo, PinA00>>, <<Bang>>, <<Unclosed>>,
             <<Inputs, PinA00, KwNone>>,
             <<KwInput, PinA00, KwNone, Bang>>,
             <<KwOutput, PinB15, Foo>>,
             <<KwInput, PinA00>>, <<KwInput, KwNone, PinA00>>,
             <<KwInput, PinA00, PinB15>>, <<KwSet>>, <<PinA00>>,
             <<Baud115200>>}}
    \cup {<<" ", "\t">> \o LineFrom(<<KwOutput, PinA00, KwNone>>, 1) \o <<" ">>}

\* repl: the completed line goes to interpret; cmd keeps the token vector
\* as the scan left it
Interpret(source, env) ==
    cmd = <<>> /\ ~Spinning /\
    \E r \in {interpret(World(bc, currently_active_uart), source, env)} :
        /\ Len(r.w.bc.peripherals) <= MaxPeripherals
        /\ bc' = r.w.bc
        /\ currently_active_uart' = r.w.currently_active_uart
        /\ line' = source
        /\ cmd' = r.tokvec
        /\ out' = [ret |-> r.ret, printed |-> r.w.printed, hw |-> r.w.hw,
                   kills |-> r.w.kills, acted |-> r.w.acted]
        /\ UNCHANGED ringVars

\* the pin level and the converter's sample matter to the lines that
\* start with read or adc
EnvsOf(source) ==
    IF Len(source) > 3 /\ SubSeq(source, 1, 3) \in {<<"r", "e", "a">>, <<"a", "d", "c">>}
    THEN Envs ELSE {NoEnv}

ReplLine ==
    \E source \in ReplLines : \E env \in EnvsOf(source) :
        Interpret(source, env)

ReplNext ==
    \/ clearLine
    \/ ReplLine

(***************************************************************************)
(* The application's UART: the receive interrupt of the enabled UART       *)
(* pushes into currently_active_uart.rb, and `uart read` reads through     *)
(* readUARTPort.  Lines are token vectors here, as for Spec.               *)
(***************************************************************************)
\* usart1_isr .. uart8_isr: with the receive interrupt of an enabled UART
\* pending, the byte is written to the ring buffer of
\* currently_active_uart; a failed write is ignored.  The buffer's array
\* was a local of createUARTPeripheral; the model keeps the bytes written
\* with the record.
general_uart_isr(byte) ==
    /\ uartExists(bc) # 0
    /\ cmd = <<>> /\ ~Spinning
    /\ arrived < MaxArrivals
    /\ arrived' = arrived + 1
    /\ currently_active_uart' =
          [currently_active_uart EXCEPT
              !.rb = coreRingBufferWrite(@, byte).rb]
    /\ UNCHANGED <<rb, fifo, rb_last, rd, bc, line, cmd, out>>

Baud9600 == Word("TOKEN_NUMBER", <<"9", "6", "0", "0">>)

UartOneCmd == Execute(TokensOf(<<KwUart, PinA10, PinA09, Baud9600>>), NoEnv)

\* lines cut short: nothing, a lone word, uart and uart write with
\* nothing after them, and write as the first word
ShortWords == {<<>>, <<KwInput>>, <<KwOutput>>, <<KwSet>>, <<KwReset>>,
               <<KwToggle>>, <<KwRead>>, <<KwAdc>>,
               <<KwUart>>, <<KwUart, KwWrite>>, <<KwUart, KwUart>>,
               <<KwNone>>, <<PinA00>>, <<Hi>>, <<Baud9600>>,
               <<KwWrite, Hi>>}

\* a short line as the token vector given to parseTokensAndExecute
ShortCmd == \E ws \in ShortWords : Execute(TokensOf(ws), NoEnv)

UartNext ==
    \/ clearLine
    \/ UartOneCmd
    \/ UartReadCmd
    \/ UartWriteCmd
    \/ ShortCmd
    \/ \E byte \in Bytes : general_uart_isr(byte)

(***************************************************************************)
(* parsePortPin on its own: the text of a port-pin token, alone or with    *)
(* more of the line after it, is resolved to a port and a pin.             *)
(***************************************************************************)
\* the pin number v written with two digits, or with one when it has one
PinText(v, two) ==
    IF two \/ v > 9
    THEN <<Digits[(v \div 10) + 1], Digits[(v % 10) + 1]>>
    ELSE <<Digits[v + 1]>>

\* pin numbers 0 .. MaxPinNumber are written
MaxPinNumber == 17

\* the port letters, and letters next to them, between and after them
PortLetters == {"A", "B", "C", "D", "E", "a", "b", "c", "d", "e"}
OtherLetters == {"F", "Z", "_", "f", "z"}

\* what follows the word on the line
Rests == {<<>>, <<" ", "n", "o", "n", "e">>, <<" ", "7">>}

PortPinTexts ==
    {<<c>> \o PinText(v, two) \o rest :
        c \in PortLetters \cup OtherLetters, v \in 0 .. MaxPinNumber,
        two \in BOOLEAN, rest \in Rests}

\* a handler's call parsePortPin(current_token, &port, &pin) with port and
\* pin 0 before it; acted keeps what the call left in them
ResolvePortPin(text) ==
    /\ cmd = <<>> /\ ~Spinning
    /\ line' = text
    /\ cmd' = <<makeToken(text, 0, identifierEnd(text, 0), "TOKEN_PORT_PIN")>>
    /\ out' = [NoOutput EXCEPT
                 !.ret = parsePortPin(cmd'[1]).ok,
                 !.acted = <<[port |-> parsePortPin(cmd'[1]).port,
                              pin  |-> parsePortPin(cmd'[1]).pin]>>]
    /\ UNCHANGED <<bc, currently_active_uart>>
    /\ UNCHANGED ringVars

ResolveCmd == \E text \in PortPinTexts : ResolvePortPin(text)

PortPinNext ==
    \/ clearLine
    \/ ResolveCmd

(***************************************************************************)
(* The growable tables on their own: the token vector as the scan loop     *)
(* appends to it, and the peripheral and clock tables as createDigitalPin  *)
(* appends to them, pin after pin on the ports in turn.                    *)
(***************************************************************************)
\* each table takes at most MaxAppends elements
MaxAppends == 9

TablePorts == <<GPIOA, GPIOB, GPIOC, GPIOD, GPIOE>>

TableTokens ==
    {[type |-> w.type, start |-> w.text, length |-> Len(w.text)] :
        w \in {PinA00, KwNone}}

\* the TokenVector that holds the tokens: what the appends made of it
RECURSIVE VecOf(_)
VecOf(tokens) ==
    IF tokens = <<>> THEN initTokenVector
    ELSE appendTokenVector(VecOf(SubSeq(tokens, 1, Len(tokens) - 1)),
                           tokens[Len(tokens)])

\* interpret's loop appends one more token to the vector of the line
TableToken ==
    \E tok \in TableTokens :
        /\ bc = initBoard
        /\ Len(cmd) < MaxAppends
        /\ cmd' = appendTokenVector(VecOf(cmd), tok).tokens
        /\ UNCHANGED <<bc, currently_active_uart, line, out>>
        /\ UNCHANGED ringVars

\* a digital pin is created on a free location of the next port
TablePin ==
    \E role \in {"TYPE_GPIO_INPUT", "TYPE_GPIO_OUTPUT"} :
        \E port \in {TablePorts[(Len(bc.peripherals) % Len(TablePorts)) + 1]} :
            /\ cmd = <<>>
            /\ Len(bc.peripherals) < MaxAppends
            /\ bc' = createDigitalPin(bc, port, GPIO(Len(bc.peripherals)),
                                      getClockFromPort(port), role,
                                      "GPIO_PUPD_NONE")
            /\ UNCHANGED <<currently_active_uart, line, cmd, out>>
            /\ UNCHANGED ringVars

TablesNext ==
    \/ TableToken
    \/ TablePin

\* input and output lines of the wrong shape, and the two right ones
DigitalOddWords ==
    {<<KwInput, PinA00>>,
     <<KwOutput, KwNone>>,
     <<KwInput, PinA00, PinB00>>,
     <<KwOutput, KwNone, KwPullup>>,
     <<KwInput, PinA00, Baud9600>>,
     <<KwOutput, Hi, KwNone>>,
     <<KwInput, PinA00, KwNone, KwNone>>,
     <<KwOutput, PinA00, KwNone, PinB00>>,
     <<KwInput, PinF00, KwNone>>,
     <<KwOutput, KwPullup, PinA11>>}

DigitalOddCmd == \E ws \in DigitalOddWords : Execute(TokensOf(ws), NoEnv)

DigitalNext ==
    \/ clearLine
    \/ DigitalCmd
    \/ DigitalOddCmd
    \/ UartOverDigitalCmd

(***************************************************************************)
(* Lines over peripherals that share clocks: USART1 on A10/A9 and again on *)
(* B7/B6, USART6 on A12/A11, and digital and analog pins on their ports.   *)
(***************************************************************************)
PinB06 == Word("TOKEN_PORT_PIN", <<"B", "0", "6">>)
PinB07 == Word("TOKEN_PORT_PIN", <<"B", "0", "7">>)

ClockWords ==
    {<<KwUart, PinA10, PinA09, Baud9600>>,
     <<KwUart, PinB07, PinB06, Baud9600>>,
     <<KwUart, PinA12, PinA11, Baud9600>>,
     <<KwInput, PinA09, KwNone>>,
     <<KwOutput, PinB06, KwNone>>,
     <<KwInput, PinA00, KwNone>>,
     <<KwAdc, PinA00>>,
     <<KwAdc, PinA09>>}

ClockCmd == \E ws \in ClockWords : Execute(TokensOf(ws), NoEnv)

ClocksNext ==
    \/ clearLine
    \/ ClockCmd

\* uart lines of the wrong shape, with a pin outside the UART table, with
\* the TX pin first and with the second and third baud rate
UartOddWords ==
    {<<KwUart, PinA10, PinA09, PinA09>>,
     <<KwUart, PinA10, Baud9600, Baud9600>>,
     <<KwUart, PinA10, PinA09, KwNone>>,
     <<KwUart, PinA10, PinA09, Baud9600, Baud9600>>,
     <<KwUart, PinA10, PinA09>>,
     <<KwUart, PinA10, Baud9600, PinA09>>,
     <<KwUart, PinA00, PinA09, Baud9600>>,
     <<KwUart, PinA12, PinA00, Baud9600>>,
     <<KwUart, PinA09, PinA10, Baud115200>>,
     <<KwUart, PinA11, PinA11,
       Word("TOKEN_NUMBER", <<"5", "7", "6", "0", "0">>)>>}

UartOddCmd == \E ws \in UartOddWords : Execute(TokensOf(ws), NoEnv)

Next ==
    \/ clearLine
    \/ InputOutputCmd
    \/ ActionCmd
    \/ AdcCmd
    \/ UartInitCmd
    \/ UartOddCmd
    \/ UartReadCmd
    \/ UartWriteCmd

Init == RingInit /\ BoardInit

SpecRing == Init /\ [][RingNext]_vars

SpecRingIsr == Init /\ [][RingIsrNext]_vars

Spec == Init /\ [][Next]_vars

SpecDigital == Init /\ [][DigitalNext]_vars

SpecRepl == Init /\ [][ReplNext]_vars

SpecUart == Init /\ [][UartNext]_vars

SpecPortPin == Init /\ [][PortPinNext]_vars

SpecClocks == Init /\ [][ClocksNext]_vars

SpecTables == Init /\ [][TablesNext]_vars

(***************************************************************************)
(* Ring buffer properties.                                                 *)
(***************************************************************************)
\* the unread slots of r, oldest first: read_index up to write_index
Unread(r) ==
    LET size == r.mask + 1
        n    == (r.write_index + size - r.read_index) % size
    IN  [i \in 1 .. n |-> r.buffer[(r.read_index + i - 1) % size]]

IsFull(r) == BitAnd(r.write_index + 1, r.mask) = r.read_index

\* C1: the ring buffer is a FIFO queue of bound RingSize - 1: its unread
\* slots are exactly the bytes accepted and not yet returned, in write
\* order; a write with fewer than RingSize - 1 unread bytes succeeds and a
\* read of a non-empty buffer succeeds and returns the oldest unread byte.
C1_Fifo ==
    /\ Unread(rb) = fifo
    /\ Len(fifo) <= RingSize - 1
    /\ (rb_last.op = "write" /\ Len(rb_last.pre_fifo) < RingSize - 1)
            => (rb_last.ret /\ fifo = Append(rb_last.pre_fifo, rb_last.byte))
    /\ (rb_last.op = "read" /\ rb_last.pre_fifo # <<>>)
            => /\ rb_last.ret
               /\ rb_last.byte = Head(rb_last.pre_fifo)
               /\ fifo = Tail(rb_last.pre_fifo)
    /\ (rb_last.op = "read" /\ rb_last.pre_fifo = <<>>) => ~rb_last.ret

\* a read has just returned a byte out of a buffer whose unread bytes wrapped
\* past the end of the storage
C1_Witness ==
    /\ rb_last.op = "read"
    /\ rb_last.ret
    /\ rb_last.pre_rb.write_index < rb_last.pre_rb.read_index
    /\ Len(rb_last.pre_fifo) = RingSize - 1
    /\ rb_last.byte = 1
    /\ rb.read_index = 0

\* C2: a write to a full buffer returns failure and changes neither the
\* storage nor an index, so the unread bytes are still those written.
C2_FullWriteDrops ==
    (rb_last.op = "write" /\ IsFull(rb_last.pre_rb))
        => /\ ~rb_last.ret
           /\ rb = rb_last.pre_rb
           /\ fifo = rb_last.pre_fifo
           /\ Unread(rb) = rb_last.pre_fifo

\* a byte differing from every stored one was offered to a full buffer
C2_Witness ==
    /\ rb_last.op = "write"
    /\ IsFull(rb_last.pre_rb)
    /\ Len(rb_last.pre_fifo) = RingSize - 1
    /\ \A i \in 1 .. Len(fifo) : fifo[i] # rb_last.byte

\* C3: with the interrupt's write between any two statements of the read,
\* the unread slots are still exactly the accepted bytes in order, a read
\* that passed its emptiness test is reading a written slot that no write
\* overwrites before the read index moves, and it returns the oldest byte.
C3_IsrSafe ==
    /\ Unread(rb) = fifo
    /\ rd.pc \in {"load_write", "check", "copy", "store"}
            => rd.local_read_index = rb.read_index
    /\ rd.pc \in {"copy", "store"}
            => /\ fifo # <<>>
               /\ rb.buffer[rd.local_read_index] = Head(fifo)
    /\ rd.pc = "store" => rd.byte = Head(fifo)
    /\ (rb_last.op = "read" /\ rb_last.ret)
            => /\ rb_last.byte = Head(rb_last.pre_fifo)
               /\ fifo = Tail(rb_last.pre_fifo)
    /\ (rb_last.op = "write" /\ rb_last.ret)
            => fifo = Append(rb_last.pre_fifo, rb_last.byte)

\* the interrupt wrote into the slot that filled the buffer while a read was
\* between copying its byte and storing the new read index
C3_Witness ==
    /\ rd.pc = "store"
    /\ rb_last.op = "write"
    /\ rb_last.ret
    /\ IsFull(rb)
    /\ rb.write_index < rb.read_index

\* C4: coreRingBufferEmpty is true exactly when no unread byte remains.
C4_EmptyIff ==
    /\ coreRingBufferEmpty(rb) <=> fifo = <<>>
    /\ rb_last.op = "empty" => (rb_last.ret <=> fifo = <<>>)

\* emptiness was tested, and found, after bytes were written and read back
\* with the indices away from their initial position
C4_Witness ==
    /\ rb_last.op = "empty"
    /\ rb_last.ret
    /\ rb.read_index # 0

(***************************************************************************)
(* Board registry properties.                                              *)
(***************************************************************************)
Loc(n) == [port |-> GPIOA, pin |-> GPIO(n)]

\* the locations the command lines name
Locs == {Loc(0), Loc(9), Loc(10), Loc(11), Loc(12),
         [port |-> GPIOB, pin |-> GPIO(0)]}

\* the peripheral p claims the location: a pin its own, a UART its RX and TX
ClaimsLoc(p, l) ==
    GpioAt(p, l.port, l.pin) \/ AdcAt(p, l.port, l.pin)
        \/ UartAt(p, l.port, l.pin)

EnabledAt(b, l) ==
    {i \in 1 .. Len(b.peripherals) :
        b.peripherals[i].status /\ ClaimsLoc(b.peripherals[i], l)}

\* the locations the port-pin tokens of the line name
NamedLocs(vec) ==
    {[port |-> parsePortPin(vec[i]).port, pin |-> parsePortPin(vec[i]).pin] :
        i \in {j \in 2 .. Len(vec) : vec[j].type = "TOKEN_PORT_PIN"}}

IsLine(vec, types) == vec # <<>> /\ vec[1].type \in types

\* C5: location exclusivity: at most one enabled peripheral of the table
\* claims any location, a UART claiming its RX and its TX location.
C5_LocationExclusive ==
    \A l \in Locs : Cardinality(EnabledAt(bc, l)) <= 1

\* C6: role tracking: right after an input or output line that returned
\* success, pinExists reports the requested digital role for the location
\* the line names.
C6_RoleTracking ==
    (IsLine(cmd, {"TOKEN_GPIO_INPUT", "TOKEN_GPIO_OUTPUT"}) /\ out.ret)
        => \A l \in NamedLocs(cmd) :
              pinExists(bc, l.port, l.pin) =
                 IF cmd[1].type = "TOKEN_GPIO_INPUT"
                 THEN "TYPE_GPIO_INPUT" ELSE "TYPE_GPIO_OUTPUT"

Mismatch(type, role) ==
    \/ type \in {"TOKEN_GPIO_SET", "TOKEN_GPIO_RESET", "TOKEN_GPIO_TOGGLE"}
       /\ role = "TYPE_GPIO_INPUT"
    \/ type = "TOKEN_GPIO_READ" /\ role = "TYPE_GPIO_OUTPUT"

\* C7: a set, reset or toggle line on a digital input, and a read line on a
\* digital output, does not return success, yields the value 0 and makes
\* no gpio_set, gpio_clear or gpio_toggle call.
C7_MismatchRejected ==
    IsLine(cmd, {"TOKEN_GPIO_SET", "TOKEN_GPIO_RESET", "TOKEN_GPIO_TOGGLE",
                 "TOKEN_GPIO_READ"})
        => \A l \in NamedLocs(cmd) :
              Mismatch(cmd[1].type, pinExists(bc, l.port, l.pin))
                 => /\ ~out.ret
                    /\ \A i \in 1 .. Len(out.acted) :
                          out.acted[i].read_response = 0
                    /\ out.hw = <<>>

\* the first enabled peripheral of b the location belongs to, as pinExists
\* finds it
HolderOf(b, l) == b.peripherals[CHOOSE i \in EnabledAt(b, l) :
                                    \A j \in EnabledAt(b, l) : i <= j]

\* C8: after a kill of a location that an enabled peripheral held, pinExists
\* reports TYPE_NONE for it, and for a UART for its RX and its TX location.
C8_KillClears ==
    \A k \in 1 .. Len(out.kills) :
        LET kill == out.kills[k]
            l    == [port |-> kill.port, pin |-> kill.pin]
        IN  EnabledAt(kill.before, l) # {}
               => /\ pinExists(kill.after, l.port, l.pin) = "TYPE_NONE"
                  /\ HolderOf(kill.before, l).type = "TYPE_UART"
                        => LET u == HolderOf(kill.before, l).peripheral.uart
                           IN  /\ pinExists(kill.after, u.RX.port, u.RX.pin)
                                     = "TYPE_NONE"
                               /\ pinExists(kill.after, u.TX.port, u.TX.pin)
                                     = "TYPE_NONE"

\* the board holds digital pins only, as made from the empty board by
\* input and output lines
OnlyDigital(b) ==
    /\ Len(b.peripherals) >= 1
    /\ \A i \in 1 .. Len(b.peripherals) :
          IsGpio(b.peripherals[i]) /\ b.peripherals[i].status

ClockEntries(b, clock) ==
    {i \in 1 .. Len(b.clocks) : b.clocks[i].clock = clock}

OneEnabledEntry(b, clock) ==
    /\ Cardinality(ClockEntries(b, clock)) = 1
    /\ \A i \in ClockEntries(b, clock) : b.clocks[i].clock_enabled

\* C9: clock sharing: on a board of digital pins made from the empty board
\* the clock table holds exactly one entry, enabled, for the clock of each
\* pin, and the kill of any of the pins leaves it so.
C9_ClockSharing ==
    /\ OnlyDigital(bc)
          => \A i \in 1 .. Len(bc.peripherals) :
                OneEnabledEntry(bc, bc.peripherals[i].peripheral.gpio.clock)
    /\ \A k \in 1 .. Len(out.kills) :
          LET kill == out.kills[k]
          IN  OnlyDigital(kill.before)
                => \A i \in 1 .. Len(kill.before.peripherals) :
                      OneEnabledEntry(
                          kill.after,
                          kill.before.peripherals[i].peripheral.gpio.clock)

\* one of two digital pins that share the clock of port A, made on the
\* empty board, has just been killed
C9_Witness ==
    /\ Len(out.kills) = 1
    /\ OnlyDigital(out.kills[1].before)
    /\ Len(out.kills[1].before.peripherals) = 2
    /\ \A i \in 1 .. 2 :
          out.kills[1].before.peripherals[i].peripheral.gpio.clock
             = "RCC_GPIOA"
    /\ \E i \in 1 .. 2 :
          /\ ~out.kills[1].after.peripherals[i].status
          /\ out.kills[1].after.peripherals[3 - i].status

AdcClockEnabled(b) ==
    \E i \in ClockEntries(b, RCC_ADC1) : b.clocks[i].clock_enabled

AnalogEnabled(b) ==
    \E i \in 1 .. Len(b.peripherals) :
        b.peripherals[i].type = "TYPE_ADC" /\ b.peripherals[i].status

\* C10: ADC converter clock release: an input or output line that converts
\* an enabled analog pin to digital leaves the converter clock enabled while
\* another analog peripheral remains enabled, and disabled when the pin was
\* the last enabled analog one.
C10_AdcClockRelease ==
    [][(IsLine(cmd', {"TOKEN_GPIO_INPUT", "TOKEN_GPIO_OUTPUT"}) /\ out'.ret
        /\ \E l \in NamedLocs(cmd') :
              pinExists(bc, l.port, l.pin) = "TYPE_ADC")
          => (AdcClockEnabled(bc') <=> AnalogEnabled(bc'))]_vars

(***************************************************************************)
(* Command interpretation properties.                                      *)
(***************************************************************************)
\* the port-pin word of the i-th port letter, upper or lower case
PortPinWord(upper, i, v, two) ==
    Word("TOKEN_PORT_PIN",
         <<(IF upper THEN UpperCase ELSE LowerCase)[i]>> \o PinText(v, two))

PupdOf(pull) ==
    CASE pull.type = "TOKEN_GPIO_NORESISTOR" -> "GPIO_PUPD_NONE"
      [] pull.type = "TOKEN_GPIO_PULLUP"     -> "GPIO_PUPD_PULLUP"
      [] pull.type = "TOKEN_GPIO_PULLDOWN"   -> "GPIO_PUPD_PULLDOWN"

RoleOf(kw) ==
    IF kw.type = "TOKEN_GPIO_INPUT" THEN "TYPE_GPIO_INPUT"
    ELSE "TYPE_GPIO_OUTPUT"

Enabled(b) == {k \in 1 .. Len(b.peripherals) : b.peripherals[k].status}

\* a step of the repl that interprets a line
Interpreted == cmd = <<>> /\ cmd' # <<>>

\* C11: digital pin command round trip: on an empty board the line
\* input|output <letter A-E/a-e><pin 0..15 in one or two digits>
\* <pullup|pulldown|none> returns success and leaves exactly one enabled
\* peripheral, of that role and pull, at that location; set on the one
\* output so created succeeds and prints no error.
C11_DigitalRoundTrip ==
    [][(Interpreted /\ Len(bc.peripherals) <= 1) =>
        \A upper \in BOOLEAN, i \in 1 .. 5, v \in 0 .. 15, two \in BOOLEAN :
          LET pp   == PortPinWord(upper, i, v, two)
              port == GPIOA + PORT_SIZE * (i - 1)
              pin  == Pow2(v)
          IN  /\ \A kw \in {KwInput, KwOutput},
                    pull \in {KwNone, Pullup, Pulldown} :
                    (bc = initBoard /\ line' = LineFrom(<<kw, pp, pull>>, 1))
                      => /\ out'.ret
                         /\ Cardinality(Enabled(bc')) = 1
                         /\ \A k \in Enabled(bc') :
                               /\ bc'.peripherals[k].type = RoleOf(kw)
                               /\ GpioAt(bc'.peripherals[k], port, pin)
                               /\ bc'.peripherals[k].peripheral.gpio
                                     .pupd_resistor = PupdOf(pull)
              /\ (/\ Len(bc.peripherals) = 1
                  /\ bc.peripherals[1].status
                  /\ bc.peripherals[1].type = "TYPE_GPIO_OUTPUT"
                  /\ GpioAt(bc.peripherals[1], port, pin)
                  /\ line' = LineFrom(<<KwSet, pp>>, 1))
                      => /\ out'.ret
                         /\ \A k \in 1 .. Len(out'.printed) :
                               out'.printed[k].kind = "info"]_vars


\* C12: on an empty board the line `uart A9 A10 115200` returns success and
\* leaves one enabled UART peripheral, USART1, with A9 its TX and A10 its
\* RX pin at 115200 baud.
C12_UartCreate ==
    [][(Interpreted /\ bc = initBoard
        /\ line' = LineFrom(<<KwUart, PinA9, PinA10, Baud115200>>, 1))
          => /\ out'.ret
             /\ Len(bc'.peripherals) = 1
             /\ bc'.peripherals[1].status
             /\ bc'.peripherals[1].type = "TYPE_UART"
             /\ bc'.peripherals[1].peripheral.uart.handle = "USART1"
             /\ bc'.peripherals[1].peripheral.uart.baudrate = 115200
             /\ bc'.peripherals[1].peripheral.uart.TX.port = GPIOA
             /\ bc'.peripherals[1].peripheral.uart.TX.pin = GPIO(9)
             /\ bc'.peripherals[1].peripheral.uart.RX.port = GPIOA
             /\ bc'.peripherals[1].peripheral.uart.RX.pin = GPIO(10)]_vars

\* C13: UART receive path: when an enabled UART exists and the interrupt
\* handler has pushed k bytes (1 <= k <= 31) into the receive queue since
\* the last read, `uart read` returns success and reports exactly those k
\* bytes in arrival order, and leaves the receive queue empty.
C13_UartReadDrains ==
    [][(Interpreted /\ cmd' = TokensOf(<<KwUart, KwRead>>)
        /\ uartExists(bc) # 0
        /\ Len(Unread(currently_active_uart.rb)) \in 1 .. UART_MAX_READ - 1)
          => /\ out'.ret
             /\ Len(out'.acted) = 1
             /\ out'.acted[1].count = Len(Unread(currently_active_uart.rb))
             /\ out'.acted[1].data = Unread(currently_active_uart.rb)
             /\ coreRingBufferEmpty(currently_active_uart'.rb)]_vars

\* C14: `uart write "hi"` with an enabled UART transmits exactly the
\* characters between the quotes, in order, and reports their number (2);
\* the quotes themselves are not transmitted.
C14_WriteContent ==
    (cmd = TokensOf(<<KwUart, KwWrite, Hi>>) /\ uartExists(bc) # 0)
        => LET content == SubSeq(Hi.text, 2, Len(Hi.text) - 1)
           IN  /\ [k \in 1 .. Len(out.hw) |-> out.hw[k].byte] = content
               /\ \A k \in 1 .. Len(out.hw) :
                     out.hw[k].call = "usart_send_blocking"
               /\ Len(out.acted) = 1
               /\ out.acted[1].count = Len(content)

\* C15: with no enabled UART in the table, `uart read` and
\* `uart write <string>` return failure, transmit and read nothing, and
\* leave the peripheral and clock tables as they were.
C15_NoUartIsError ==
    [][(Interpreted /\ uartExists(bc) = 0
        /\ cmd' \in {TokensOf(<<KwUart, KwRead>>),
                     TokensOf(<<KwUart, KwWrite, Hi>>)})
          => /\ ~out'.ret
             /\ \E k \in 1 .. Len(out'.printed) :
                   out'.printed[k].kind = "error"
             /\ out'.hw = <<>>
             /\ \A k \in 1 .. Len(out'.acted) : out'.acted[k].count = 0
             /\ bc' = bc]_vars

\* C16: scan errors abort the line: when the scan of the line produces an
\* error token, the token vector ends with that token and holds no other
\* error token, only the scanner's message is printed and no handler acts,
\* interpret returns failure, and the board is as it was before the line.
C16_ScanErrorAborts ==
    [][(Interpreted /\ scanLine(line', 0, <<>>).error)
          => /\ cmd'[Len(cmd')].type = "TOKEN_ERROR"
             /\ \A k \in 1 .. Len(cmd') - 1 :
                   cmd'[k].type \notin {"TOKEN_ERROR", "TOKEN_EOL"}
             /\ ~out'.ret
             /\ out'.printed =
                   <<[kind |-> "scan_error", text |-> "Could not parse"]>>
             /\ out'.hw = <<>> /\ out'.acted = <<>> /\ out'.kills = <<>>
             /\ bc' = bc
             /\ currently_active_uart' = currently_active_uart]_vars

\* a line with valid tokens before its error token has been refused on a
\* board that holds a peripheral
C16_Witness ==
    /\ Len(cmd) > 2
    /\ cmd[Len(cmd)].type = "TOKEN_ERROR"
    /\ cmd[1].type = "TOKEN_GPIO_INPUT"
    /\ Len(bc.peripherals) > 0
    /\ ~out.ret

\* C17: no user input is fatal: whatever line was given, no handler has
\* read the token vector at or past its size (the read that spins for
\* ever), interpret has returned, and the repl takes the next line.
C17_NoFatalInput ==
    /\ ~Spinning
    /\ cmd # <<>> => ENABLED clearLine
    /\ cmd = <<>> => ENABLED Interpret(<<>>, NoEnv)

\* `uart write` with no string has been refused
C17_Witness ==
    /\ cmd = TokensOf(<<KwUart, KwWrite>>)
    /\ ~out.ret
    /\ Len(out.printed) = 1
    /\ out.printed[1].kind = "error"

\* C18: port-pin resolution: the text <letter><pin> with a letter in
\* A-E/a-e and a pin 0..15 resolves to port base + step * index(letter),
\* the same for both cases of a letter, and pin 1 << pin; a number of 16
\* or more, or a letter outside the range, is rejected.
C18_PortPinResolution ==
    \A v \in 0 .. MaxPinNumber, two \in BOOLEAN, rest \in Rests :
        /\ \A upper \in BOOLEAN, i \in 1 .. 5 :
              line = PortPinWord(upper, i, v, two).text \o rest /\ cmd # <<>>
                => IF v <= 15
                   THEN /\ out.ret
                        /\ out.acted[1].port = GPIOA + PORT_SIZE * (i - 1)
                        /\ out.acted[1].pin = Pow2(v)
                   ELSE ~out.ret
        /\ \A c \in OtherLetters :
              line = <<c>> \o PinText(v, two) \o rest /\ cmd # <<>>
                => ~out.ret

\* e7, a lower-case letter with a one-digit pin, has been resolved
C18_Witness ==
    /\ line = <<"e", "7">>
    /\ cmd # <<>>
    /\ out.ret
    /\ out.acted = <<[port |-> GPIOE, pin |-> GPIO(7)]>>

\* one letter of A-E or a-e and then a pin number 0..15 in one or two
\* digits
IsPortPinText(t) ==
    /\ t # <<>>
    /\ t[1] \in PortLetters
    /\ \E v \in 0 .. 15, two \in BOOLEAN : Tail(t) = PinText(v, two)

TextOf(token) == SubSeq(token.start, 1, token.length)

\* C19: scanner port-pin classification: an identifier run that is not a
\* keyword is a port-pin token if and only if it is one letter of A-E or
\* a-e followed by a pin number 0..15 in one or two digits; every other
\* such run is an error token.
C19_PortPinClassified ==
    \A k \in 1 .. Len(cmd) :
        (/\ cmd[k].type \in {"TOKEN_PORT_PIN", "TOKEN_ERROR"}
         /\ cmd[k].length > 0
         /\ isAlpha(Ord(cmd[k].start[1])))
            => (cmd[k].type = "TOKEN_PORT_PIN"
                   <=> IsPortPinText(TextOf(cmd[k])))

\* the twelve keywords as the specification spells them, each with its
\* token type
SpecKeywords == {KwInput, KwOutput, KwSet, KwReset, KwToggle, KwRead, KwAdc,
                 KwUart, KwWrite, Pullup, Pulldown, KwNone}

\* C20: scanner keyword table: each of the words input, output, set, reset,
\* toggle, read, adc, uart, write, pullup, pulldown, none, standing alone
\* between whitespace or the ends of the line, scans to its own keyword
\* token type, never to an error or port-pin token.
C20_KeywordTable ==
    \A k \in 1 .. Len(cmd) : \A kw \in SpecKeywords :
        TextOf(cmd[k]) = kw.text => cmd[k].type = kw.type


(***************************************************************************)
(* Conversion, validation and frame properties of the handlers.            *)
(***************************************************************************)
Digital == {"TYPE_GPIO_INPUT", "TYPE_GPIO_OUTPUT"}

AdcCapable(l) == getADCChannelFromPortPin(l.port, l.pin) # ADC_OUT_OF_BOUNDS

NoErrorPrinted(o) ==
    \A k \in 1 .. Len(o.printed) : o.printed[k].kind # "error"

\* C21: digital-to-analog conversion: an adc line on an ADC-capable
\* location whose role is digital input or output succeeds and converts the
\* entry in place (same index, same count, every other entry unchanged),
\* after which pinExists reports TYPE_ADC; on a location whose role is
\* analog a read line returns a sample without error, and a set, reset or
\* toggle line returns failure and drives nothing.
C21_DigitalToAnalog ==
    [][Interpreted =>
        /\ IsLine(cmd', {"TOKEN_ADC"}) =>
              \A l \in NamedLocs(cmd') :
                 (pinExists(bc, l.port, l.pin) \in Digital /\ AdcCapable(l))
                    => /\ out'.ret
                       /\ Len(bc'.peripherals) = Len(bc.peripherals)
                       /\ \A i \in 1 .. Len(bc.peripherals) :
                             IF GpioAt(bc.peripherals[i], l.port, l.pin)
                             THEN /\ AdcAt(bc'.peripherals[i], l.port, l.pin)
                                  /\ bc'.peripherals[i].status
                             ELSE bc'.peripherals[i] = bc.peripherals[i]
                       /\ pinExists(bc', l.port, l.pin) = "TYPE_ADC"
        /\ IsLine(cmd', {"TOKEN_GPIO_READ"}) =>
              \A l \in NamedLocs(cmd') :
                 pinExists(bc, l.port, l.pin) = "TYPE_ADC"
                    => /\ out'.ret
                       /\ NoErrorPrinted(out')
                       /\ Len(out'.acted) = 1
                       /\ out'.acted[1].read_response \in 0 .. MaxSample
                       /\ bc' = bc
        /\ IsLine(cmd', {"TOKEN_GPIO_SET", "TOKEN_GPIO_RESET",
                         "TOKEN_GPIO_TOGGLE"}) =>
              \A l \in NamedLocs(cmd') :
                 pinExists(bc, l.port, l.pin) = "TYPE_ADC"
                    => /\ ~out'.ret
                       /\ out'.hw = <<>>
                       /\ bc' = bc]_vars

\* an adc line has just converted the digital pin at A0
C21_Witness ==
    /\ cmd = TokensOf(<<KwAdc, PinA00>>)
    /\ out.ret
    /\ Len(out.printed) = 1
    /\ out.printed[1].text = "Modified GPIO to ADC pin"
    /\ pinExists(bc, GPIOA, GPIO(0)) = "TYPE_ADC"


\* the port-pin and the number tokens of a line, in order
RECURSIVE TokensOfType(_, _)
TokensOfType(vec, type) ==
    IF vec = <<>> THEN <<>>
    ELSE (IF Head(vec).type = type THEN <<Head(vec)>> ELSE <<>>)
            \o TokensOfType(Tail(vec), type)

\* the number a run of decimal digits writes
RECURSIVE DecimalOf(_)
DecimalOf(text) ==
    IF text = <<>> THEN 0
    ELSE 10 * DecimalOf(SubSeq(text, 1, Len(text) - 1))
            + IndexIn(Digits, text[Len(text)]) - 1

LocOf(token) ==
    [port |-> parsePortPin(token).port, pin |-> parsePortPin(token).pin]

\* the rows of the UART pin table for a location
UartRows(l) ==
    {k \in 1 .. Len(uartPinMappings) :
        uartPinMappings[k].port = l.port /\ uartPinMappings[k].pin = l.pin}

\* a uart line that names pins: uart and then a port pin
UartInitLine(vec) ==
    IsLine(vec, {"TOKEN_UART"}) /\ Len(vec) >= 2
        /\ vec[2].type = "TOKEN_PORT_PIN"

\* exactly two port pins and one number after uart, the number one of the
\* three baud rates, the first pin an RX pin and the second a TX pin of
\* the same UART
ValidUartInit(vec) ==
    LET pins == TokensOfType(vec, "TOKEN_PORT_PIN")
        nums == TokensOfType(vec, "TOKEN_NUMBER")
    IN  /\ Len(vec) = 5
        /\ Len(pins) = 2
        /\ Len(nums) = 1
        /\ DecimalOf(TextOf(nums[1])) \in {9600, 57600, 115200}
        /\ \E r \in UartRows(LocOf(pins[1])), t \in UartRows(LocOf(pins[2])) :
              /\ uartPinMappings[r].uartPin.isRx
              /\ uartPinMappings[t].uartPin.isTx
              /\ uartPinMappings[r].uartPin.handle
                    = uartPinMappings[t].uartPin.handle

\* C22: UART initialise validation: a uart line that names pins returns
\* success only if it has exactly two port pins and one number, the number
\* is 9600, 57600 or 115200, both pins are in the UART pin table, the first
\* as RX and the second as TX of the same UART; when it returns failure it
\* has killed nothing and the peripheral table, the clock table and the
\* active UART are as before.
C22_UartInitValidation ==
    [][(Interpreted /\ UartInitLine(cmd')) =>
          /\ out'.ret => ValidUartInit(cmd')
          /\ ~out'.ret => /\ out'.kills = <<>>
                          /\ bc' = bc
                          /\ currently_active_uart' = currently_active_uart]_vars

\* a uart line with the TX pin first has been refused on a board where the
\* first pin it names is held by a digital pin
C22_Witness ==
    /\ cmd = TokensOf(<<KwUart, PinA11, PinA12, Baud9600>>)
    /\ ~out.ret
    /\ pinExists(bc, GPIOA, GPIO(11)) \in Digital


\* C23: kill frame: killPeripheralOrPin(port, pin) leaves the peripheral
\* count unchanged and changes the enabled flag of no peripheral but an
\* enabled one whose location, or for a UART whose RX or TX location, is
\* exactly (port, pin); a UART that only shares the port keeps its flag.
C23_KillFrame ==
    \A k \in 1 .. Len(out.kills) :
        LET kill == out.kills[k]
            l    == [port |-> kill.port, pin |-> kill.pin]
        IN  /\ Len(kill.after.peripherals) = Len(kill.before.peripherals)
            /\ \A i \in 1 .. Len(kill.before.peripherals) :
                  ~(kill.before.peripherals[i].status
                        /\ ClaimsLoc(kill.before.peripherals[i], l))
                     => kill.after.peripherals[i].status
                           = kill.before.peripherals[i].status


\* the pull setting the line asks for
PullOf(vec) ==
    PupdOf(vec[CHOOSE j \in 1 .. Len(vec) : IsPull(vec[j].type)])

\* the index of the enabled peripheral pinExists finds at the location
HolderIndex(b, l) ==
    CHOOSE i \in EnabledAt(b, l) : \A j \in EnabledAt(b, l) : i <= j

\* C24: mutateDigitalPin: an input or output line on a location whose role
\* is already the requested digital role changes nothing on the board; on
\* a location whose role is the other digital role it replaces the entry
\* of that peripheral, at the same index, by an enabled one of the new role
\* and pull, the count and every other entry being unchanged.
C24_MutateInPlace ==
    [][(Interpreted /\ out'.ret
        /\ IsLine(cmd', {"TOKEN_GPIO_INPUT", "TOKEN_GPIO_OUTPUT"})) =>
          \A l \in NamedLocs(cmd') :
             pinExists(bc, l.port, l.pin) \in Digital =>
                IF pinExists(bc, l.port, l.pin) = RoleOf(cmd'[1])
                THEN bc' = bc
                ELSE /\ Len(bc'.peripherals) = Len(bc.peripherals)
                     /\ \A i \in 1 .. Len(bc.peripherals) :
                           IF i = HolderIndex(bc, l)
                           THEN /\ bc'.peripherals[i].type = RoleOf(cmd'[1])
                                /\ GpioAt(bc'.peripherals[i], l.port, l.pin)
                                /\ bc'.peripherals[i].status
                                /\ bc'.peripherals[i].peripheral.gpio
                                      .pupd_resistor = PullOf(cmd')
                           ELSE bc'.peripherals[i] = bc.peripherals[i]]_vars


\* C25: adc over a UART: an adc line on a location that an enabled UART
\* holds as RX or TX returns success, and afterwards pinExists reports
\* TYPE_ADC for the location and the UART is disabled.
C25_AdcOverUart ==
    [][(Interpreted /\ IsLine(cmd', {"TOKEN_ADC"})) =>
          \A l \in NamedLocs(cmd') :
             pinExists(bc, l.port, l.pin) = "TYPE_UART" =>
                /\ out'.ret
                /\ pinExists(bc', l.port, l.pin) = "TYPE_ADC"
                /\ ~bc'.peripherals[HolderIndex(bc, l)].status]_vars


\* C26: input or output over a UART: an input or output line on a location
\* that an enabled UART holds as RX or TX disables that UART and appends a
\* digital pin, so that afterwards pinExists reports the requested digital
\* role for the named location and TYPE_NONE for the UART's other location.
C26_DigitalOverUart ==
    [][(Interpreted /\ out'.ret
        /\ IsLine(cmd', {"TOKEN_GPIO_INPUT", "TOKEN_GPIO_OUTPUT"})) =>
          \A l \in NamedLocs(cmd') :
             pinExists(bc, l.port, l.pin) = "TYPE_UART" =>
                LET u == bc.peripherals[HolderIndex(bc, l)].peripheral.uart
                    other == IF u.RX.port = l.port /\ u.RX.pin = l.pin
                             THEN u.TX ELSE u.RX
                IN  /\ ~bc'.peripherals[HolderIndex(bc, l)].status
                    /\ Len(bc'.peripherals) = Len(bc.peripherals) + 1
                    /\ pinExists(bc', l.port, l.pin) = RoleOf(cmd'[1])
                    /\ pinExists(bc', other.port, other.pin) = "TYPE_NONE"]_vars


\* C27: a command that returns failure leaves the board unchanged: the
\* peripheral table and the clock table are after the line as they were
\* before it.
C27_FailureKeepsBoard ==
    [][(Interpreted /\ ~out'.ret) =>
          /\ bc'.peripherals = bc.peripherals
          /\ bc'.clocks = bc.clocks]_vars


\* C28: clock ids are unique in the clock table: no two clock entries
\* carry the same clock id.
C28_ClockIdsUnique ==
    \A i, j \in 1 .. Len(bc.clocks) :
        bc.clocks[i].clock = bc.clocks[j].clock => i = j


ClockOn(b, clock) ==
    \E i \in ClockEntries(b, clock) : b.clocks[i].clock_enabled

\* the clocks a peripheral needs
ClocksOf(p) ==
    CASE IsGpio(p) -> {p.peripheral.gpio.clock}
      [] p.type = "TYPE_ADC" ->
            {p.peripheral.adc.clock, p.peripheral.adc.adc_clock}
      [] p.type = "TYPE_UART" ->
            {p.peripheral.uart.uart_clock, p.peripheral.uart.RX.clock,
             p.peripheral.uart.TX.clock}

\* C29: clocks follow peripherals: every enabled peripheral has each clock
\* it needs enabled in the clock table: a digital pin its port clock, an
\* analog pin its port clock and the converter clock, a UART its peripheral
\* clock and the port clocks of its RX and TX pins.
C29_ClocksFollow ==
    \A i \in Enabled(bc) :
        \A clock \in ClocksOf(bc.peripherals[i]) : ClockOn(bc, clock)


\* C30: kill on a UART location: a kill on a location that an enabled UART
\* holds as its RX or TX pin leaves that UART's peripheral clock entry
\* disabled, whether or not another enabled peripheral uses the same clock
\* id, and leaves the clock entries of the UART's RX and TX ports as they
\* were before the kill.
C30_UartKillClock ==
    \A k \in 1 .. Len(out.kills) :
        LET kill == out.kills[k]
            l    == [port |-> kill.port, pin |-> kill.pin]
        IN  pinExists(kill.before, l.port, l.pin) = "TYPE_UART" =>
              LET u == kill.before.peripherals[HolderIndex(kill.before, l)]
                           .peripheral.uart
              IN  /\ Len(kill.after.clocks) = Len(kill.before.clocks)
                  /\ \A i \in ClockEntries(kill.after, u.uart_clock) :
                        ~kill.after.clocks[i].clock_enabled
                  /\ \A clock \in {u.RX.clock, u.TX.clock} :
                        \A i \in ClockEntries(kill.before, clock) :
                           kill.after.clocks[i] = kill.before.clocks[i]


(***************************************************************************)
(* Dispatch, argument validation, order of actions, and the shapes of the  *)
(* ring buffer, the token vector and the growable tables.                  *)
(***************************************************************************)
\* the enabled UART entries of the table
EnabledUarts(b) == {i \in Enabled(b) : b.peripherals[i].type = "TYPE_UART"}

\* C31: single active UART: whenever an enabled UART exists, the one that
\* `uart read` and `uart write` select (the first enabled UART of the
\* table) equals currently_active_uart, the instance the interrupt handler
\* writes into, receive queue included, and it is the only enabled UART.
C31_SingleActiveUart ==
    uartExists(bc) # 0 =>
        /\ bc.peripherals[uartExists(bc)].peripheral.uart
              = currently_active_uart
        /\ Cardinality(EnabledUarts(bc)) = 1


\* what a handler's return leaves: the board, the active UART and the
\* output of the command
Left(r) ==
    [bc |-> r.w.bc, currently_active_uart |-> r.w.currently_active_uart,
     out |-> [ret |-> r.ret, printed |-> r.w.printed, hw |-> r.w.hw,
              kills |-> r.w.kills, acted |-> r.w.acted]]

\* the handler of each keyword that may start a line
HandlerOf(w, vec, env) ==
    CASE vec[1].type = "TOKEN_GPIO_INPUT"  -> inputOutput(w, vec, "OP_MAKE_INPUT")
      [] vec[1].type = "TOKEN_GPIO_OUTPUT" -> inputOutput(w, vec, "OP_MAKE_OUTPUT")
      [] vec[1].type = "TOKEN_GPIO_SET"    -> setResetToggleRead(w, vec, "OP_SET", env)
      [] vec[1].type = "TOKEN_GPIO_RESET"  -> setResetToggleRead(w, vec, "OP_RESET", env)
      [] vec[1].type = "TOKEN_GPIO_TOGGLE" -> setResetToggleRead(w, vec, "OP_TOGGLE", env)
      [] vec[1].type = "TOKEN_GPIO_READ"   -> setResetToggleRead(w, vec, "OP_READ", env)
      [] vec[1].type = "TOKEN_ADC"         -> adc(w, vec)
      [] vec[1].type = "TOKEN_UART"        -> uart(w, vec)

LineStarts ==
    {"TOKEN_GPIO_INPUT", "TOKEN_GPIO_OUTPUT", "TOKEN_GPIO_SET",
     "TOKEN_GPIO_RESET", "TOKEN_GPIO_TOGGLE", "TOKEN_GPIO_READ",
     "TOKEN_ADC", "TOKEN_UART"}

NotLineStarts ==
    {"TOKEN_PORT_PIN", "TOKEN_NUMBER", "TOKEN_STRING", "TOKEN_GPIO_PULLUP",
     "TOKEN_GPIO_PULLDOWN", "TOKEN_GPIO_NORESISTOR", "TOKEN_WRITE",
     "TOKEN_EOL"}

\* the only thing printed is the top-level error
TopLevelError(o) ==
    /\ ~o.ret
    /\ Len(o.printed) = 1
    /\ o.printed[1] = [kind |-> "error", text |-> "Invalid line logic"]
    /\ o.hw = <<>> /\ o.kills = <<>> /\ o.acted = <<>>

\* C32: top-level dispatch: a command whose first token is input, output,
\* set, reset, toggle, read, adc or uart leaves exactly what that keyword's
\* handler leaves; one whose first token is a port pin, a number, a string,
\* a pull keyword, write or the end of an empty line fails with the
\* top-level error only and changes neither the board nor the active UART.
C32_TopLevelDispatch ==
    [][Interpreted =>
         /\ cmd'[1].type \in LineStarts =>
               \E env \in Envs \cup {NoEnv} :
                  Left(HandlerOf(World(bc, currently_active_uart), cmd', env))
                     = [bc |-> bc',
                        currently_active_uart |-> currently_active_uart',
                        out |-> out']
         /\ cmd'[1].type \in NotLineStarts =>
               /\ TopLevelError(out')
               /\ bc' = bc
               /\ currently_active_uart' = currently_active_uart]_vars

\* `write "hi"` has been refused at the top level, with a UART enabled
C32_Witness ==
    /\ cmd = TokensOf(<<KwWrite, Hi>>)
    /\ TopLevelError(out)
    /\ uartExists(bc) # 0


\* an input or output line of the right shape: the keyword, one port pin
\* and one pull keyword in either order, and the end of the line
ValidInputOutput(vec) ==
    /\ Len(vec) = INPUT_OUTPUT_MAX_ARGS + 1
    /\ vec[Len(vec)].type = "TOKEN_EOL"
    /\ \/ vec[2].type = "TOKEN_PORT_PIN" /\ IsPull(vec[3].type)
       \/ IsPull(vec[2].type) /\ vec[3].type = "TOKEN_PORT_PIN"

\* C33: input/output argument validation: an input or output line whose
\* arguments are not exactly one port pin and one pull keyword, in either
\* order, before the end of the line (a wrong count, two port pins, two
\* pull keywords, any other token) returns failure with an error message
\* and creates, changes and kills nothing; so only lines of that shape
\* succeed or change the board.
C33_InputOutputValidation ==
    [][(Interpreted
        /\ cmd'[1].type \in {"TOKEN_GPIO_INPUT", "TOKEN_GPIO_OUTPUT"}
        /\ ~ValidInputOutput(cmd')) =>
          /\ ~out'.ret
          /\ \E k \in 1 .. Len(out'.printed) : out'.printed[k].kind = "error"
          /\ out'.kills = <<>>
          /\ bc' = bc
          /\ currently_active_uart' = currently_active_uart]_vars

\* a line with two pull keywords after the pin has been refused on a
\* board that holds a peripheral
C33_Witness ==
    /\ cmd = TokensOf(<<KwInput, PinA00, KwNone, KwNone>>)
    /\ ~out.ret
    /\ Len(bc.peripherals) > 0


\* the locations an action line names, in the order of the line
LocsOf(vec) == [j \in 1 .. Len(vec) - 2 |-> LocOf(vec[j + 1])]

\* an operation the role does not allow: nothing live at the location or a
\* UART, anything but read on an analog pin, set, reset or toggle on a
\* digital input, read on a digital output
InvalidOn(type, role) ==
    \/ role \in {"TYPE_NONE", "TYPE_UART"}
    \/ role = "TYPE_ADC" /\ type # "TOKEN_GPIO_READ"
    \/ Mismatch(type, role)

\* C34: action commands go left to right and stop at the first failure: on
\* a line set|reset|toggle|read P1 ... Pn where Pk is the first location
\* with no live peripheral or with a role the operation is invalid for, the
\* actions performed are those on P1 .. P(k-1), in this order, and the
\* command returns failure.
C34_StopAtFirstFailure ==
    [][(Interpreted
        /\ IsLine(cmd', {"TOKEN_GPIO_SET", "TOKEN_GPIO_RESET",
                         "TOKEN_GPIO_TOGGLE", "TOKEN_GPIO_READ"})
        /\ \A j \in 2 .. Len(cmd') - 1 : cmd'[j].type = "TOKEN_PORT_PIN") =>
          LET locs == LocsOf(cmd')
              Bad  == {j \in 1 .. Len(locs) :
                          InvalidOn(cmd'[1].type,
                                    pinExists(bc, locs[j].port, locs[j].pin))}
          IN  Bad # {} =>
                LET k == CHOOSE j \in Bad : \A i \in Bad : j <= i
                IN  /\ ~out'.ret
                    /\ [i \in 1 .. Len(out'.acted) |->
                           [port |-> out'.acted[i].port,
                            pin |-> out'.acted[i].pin]]
                          = SubSeq(locs, 1, k - 1)]_vars


\* C35: an action command needs a port pin: a line that is only the
\* keyword set, reset, toggle or read, with no port pin before the end of
\* the line, does not return success.
C35_ActionNeedsPin ==
    (/\ Len(cmd) = 2
     /\ cmd[1].type \in {"TOKEN_GPIO_SET", "TOKEN_GPIO_RESET",
                         "TOKEN_GPIO_TOGGLE", "TOKEN_GPIO_READ"}
     /\ cmd[2].type = "TOKEN_EOL")
        => ~out.ret


\* C36: ring buffer index bounds: after setup with the power-of-two
\* capacity N, read_index and write_index are in 0 .. N-1 and the mask is
\* N-1; the number of unread bytes, (write_index - read_index) mod N, is
\* the number of bytes accepted and not yet read and at most N-1; a write
\* changes nothing but write_index and the slot it stores into, and a read
\* changes nothing but read_index.
C36_IndexBounds ==
    LET pre == rb_last.pre_rb
    IN  /\ rb.mask = RingSize - 1
        /\ rb.read_index \in 0 .. RingSize - 1
        /\ rb.write_index \in 0 .. RingSize - 1
        /\ (rb.write_index - rb.read_index) % RingSize = Len(fifo)
        /\ Len(fifo) <= RingSize - 1
        /\ rb_last.op = "write" =>
              /\ rb.read_index = pre.read_index
              /\ rb.mask = pre.mask
              /\ \A i \in 0 .. RingSize - 1 :
                    i # pre.write_index => rb.buffer[i] = pre.buffer[i]
        /\ rb_last.op = "read" =>
              /\ rb.write_index = pre.write_index
              /\ rb.mask = pre.mask
              /\ rb.buffer = pre.buffer

\* a write into the last slot has wrapped the write index to 0
C36_Witness ==
    /\ rb_last.op = "write"
    /\ rb_last.ret
    /\ rb_last.pre_rb.write_index = RingSize - 1
    /\ rb.write_index = 0
    /\ rb.read_index > 0


\* the offset in the line of the character token i starts at
OffsetOf(i) == Len(line) - Len(cmd[i].start)

\* the scan of the line ended without an error token being reported
ScannedClean ==
    /\ cmd # <<>>
    /\ \A k \in 1 .. Len(out.printed) : out.printed[k].kind # "scan_error"

\* C37: scanner output shape: when the line scans without error, the token
\* vector ends with an end-of-line token and holds no other end-of-line
\* token and no error token; every token points into the line and its span
\* [start, start + length) lies inside the line; the spans follow each
\* other in the order of the vector without overlapping.
C37_ScanShape ==
    ScannedClean =>
        /\ cmd[Len(cmd)].type = "TOKEN_EOL"
        /\ \A i \in 1 .. Len(cmd) - 1 :
              /\ cmd[i].type \notin {"TOKEN_EOL", "TOKEN_ERROR"}
              /\ cmd[i].length >= 1
              /\ OffsetOf(i) + cmd[i].length <= OffsetOf(i + 1)
        /\ \A i \in 1 .. Len(cmd) :
              /\ OffsetOf(i) >= 0
              /\ cmd[i].start = SubSeq(line, OffsetOf(i) + 1, Len(line))
              /\ OffsetOf(i) + cmd[i].length <= Len(line)

\* a line with white space before, between and after its three words
C37_Witness ==
    /\ ScannedClean
    /\ Len(cmd) = 4
    /\ OffsetOf(1) = 2
    /\ OffsetOf(4) = Len(line)
    /\ line[Len(line)] = " "


\* the memory the line lies in: the line, its terminating NUL (a character
\* of code 0) and what happens to follow it
NulChar == "~"
Beyond == <<"0", "9", "\"", "a", " ", "A", "0", "0">>
Memory(text) == text \o <<NulChar>> \o Beyond

\* the tokens of a scan by type, offset and length
Shape(source, tokvec) ==
    [i \in 1 .. Len(tokvec) |->
        [type   |-> tokvec[i].type,
         offset |-> Len(source) - Len(tokvec[i].start),
         length |-> tokvec[i].length]]

\* token i is a quote that no later quote of the line closes
Unterminated(i) ==
    /\ CharAt(line, OffsetOf(i)) = Ord("\"")
    /\ \A j \in OffsetOf(i) + 1 .. Len(line) - 1 : CharAt(line, j) # Ord("\"")

\* C38: scanner termination: the scan of a line of L characters ends with
\* at most L + 1 tokens; every token before the last is at least one
\* character long and is neither the end-of-line nor an error token, the
\* last is one of the two; no token reaches past the terminating NUL, the
\* tokens do not depend on what follows the NUL, and a quote that is never
\* closed gives an error token that ends at the NUL.
C38_ScanTerminates ==
    cmd # <<>> =>
        /\ cmd = scanLine(line, 0, <<>>).tokvec
        /\ Len(cmd) <= Len(line) + 1
        /\ cmd[Len(cmd)].type \in {"TOKEN_EOL", "TOKEN_ERROR"}
        /\ \A i \in 1 .. Len(cmd) - 1 :
              /\ cmd[i].type \notin {"TOKEN_EOL", "TOKEN_ERROR"}
              /\ cmd[i].length >= 1
        /\ \A i \in 1 .. Len(cmd) :
              /\ OffsetOf(i) + cmd[i].length <= Len(line)
              /\ Unterminated(i) =>
                    /\ cmd[i].type = "TOKEN_ERROR"
                    /\ OffsetOf(i) + cmd[i].length = Len(line)
        /\ Shape(Memory(line), scanLine(Memory(line), 0, <<>>).tokvec)
              = Shape(line, cmd)

\* the line "hi with no closing quote has been scanned
C38_Witness ==
    /\ line = Unclosed.text
    /\ Len(cmd) = 1
    /\ cmd[1].type = "TOKEN_ERROR"
    /\ cmd[1].length = Len(line)
    /\ ~out.ret


\* one append to a table: the element goes to index count, the elements
\* below keep their values and order, the count is within the capacity,
\* and the capacity stays or grows to max(8, 2 * old)
Appended(old, oldcap, new, newcap) ==
    /\ Len(new) = Len(old) + 1
    /\ SubSeq(new, 1, Len(old)) = old
    /\ Len(new) <= newcap
    /\ newcap >= oldcap
    /\ newcap # oldcap =>
          newcap = IF 2 * oldcap > 8 THEN 2 * oldcap ELSE 8

\* C39: growable tables: every append to the peripheral table, the clock
\* table and the token vector stores the new element at index count and
\* adds one to the count; the elements at lower indices keep their values
\* and order, also when the capacity grows; the count never exceeds the
\* capacity; the capacity never decreases and changes only by growing to
\* max(8, 2 * old).
C39_GrowableTables ==
    [][/\ Len(bc'.peripherals) <= bc'.peripherals_size
       /\ Len(bc'.clocks) <= bc'.clocks_size
       /\ VecOf(cmd').used = Len(cmd')
       /\ VecOf(cmd').tokens = cmd'
       /\ bc' # bc =>
             /\ Appended(bc.peripherals, bc.peripherals_size,
                         bc'.peripherals, bc'.peripherals_size)
             /\ bc'.peripherals[Len(bc'.peripherals)].peripheral.gpio.pin
                   = GPIO(Len(bc.peripherals))
             /\ \/ /\ bc'.clocks = bc.clocks
                   /\ bc'.clocks_size = bc.clocks_size
                \/ /\ Appended(bc.clocks, bc.clocks_size,
                               bc'.clocks, bc'.clocks_size)
                   /\ bc'.clocks[Len(bc'.clocks)].clock
                         = bc'.peripherals[Len(bc'.peripherals)]
                              .peripheral.gpio.clock
       /\ cmd' # cmd =>
             /\ Appended(cmd, VecOf(cmd).capacity,
                         cmd', VecOf(cmd').capacity)
             /\ cmd'[Len(cmd')] \in TableTokens]_vars

\* the tables of the board have grown past their first capacity: the
\* peripheral table twice (4, 8, 16), the clock table once (4, 8)
C39_Witness ==
    /\ Len(bc.peripherals) = 9
    /\ bc.peripherals_size = 16
    /\ Len(bc.clocks) = 5
    /\ bc.clocks_size = 8

=============================================================================
